---- MODULE Spec2Model ----
(***************************************************************************)
(* ProtocolAccessControl and CredentialRegistry (Noah ZK-KYC contracts).   *)
(*                                                                         *)
(* The two contracts are modelled as one state machine.  A transaction is  *)
(* a message in flight: it sits in the mempool until the ledger executes   *)
(* it, atomically, against the state of both contracts.  A reverting       *)
(* transaction leaves a receipt and nothing else.                          *)
(*                                                                         *)
(* Representation of Solidity values                                       *)
(*   address   a natural number, 0 is address(0)                           *)
(*   bytes32   a credential hash is the record [hi, lo]: lo holds the low  *)
(*             60 bits and hi the 196 bits above them                      *)
(*   uint256   a natural number; the one subtraction of the contracts      *)
(*             (block.timestamp - 1 hours) is checked and panics below 0   *)
(***************************************************************************)
EXTENDS Integers, Sequences, FiniteSets, TLC

(***************************************************************************)
(* Bounds of the model.                                                    *)
(***************************************************************************)
MaxAddr == 2
MaxProtocol == 2
MaxUser == 2
MaxHash == 3
MaxSpecHash == 1
MaxNullifier == 1
MaxJurisdiction == 2
MaxDeviations == 2
MaxPassport == 2
MaxRegistryHash == 2
MaxAccessNullifier == 2
MaxLog == 4
MaxIdentity == 2
MaxRequest == 2

(***************************************************************************)
(* Program constants.                                                      *)
(***************************************************************************)
INDEX_MIN_AGE == 0
INDEX_JURISDICTION_START == 1
INDEX_ACCREDITED == 11
INDEX_CREDENTIAL_HASH == 12
INDEX_USER_ADDRESS == 13
INDEX_CURRENT_DATE == 14
INDEX_IS_VALID == 25
INDEX_NULLIFIER == 26
INDEX_PACKED_FLAGS == 27
NUM_SIGNALS == 28
NUM_JURISDICTIONS == 10
ONE_HOUR == 3600
ZERO_ADDRESS == 0
DEPLOYER == 1

(***************************************************************************)
(* Outcomes of a call: OK, a revert reason, or an arithmetic panic.        *)
(***************************************************************************)
OK == "ok"
PANIC_UNDERFLOW == "Panic(0x11)"
ERR_REQ_NOT_SET == "Requirements not set"
ERR_INVALID_CREDENTIAL == "Invalid or revoked credential"
ERR_INVALID_PROOF == "Invalid proof"
ERR_IS_VALID == "Circuit isValid output must be 1"
ERR_AGE_MISMATCH == "Age requirement mismatch"
ERR_JURISDICTION == "Jurisdiction requirement mismatch"
ERR_ACCREDITATION == "Accreditation requirement mismatch"
ERR_NOT_BOUND == "Proof not bound to this user"
ERR_HASH_MISMATCH == "Credential hash mismatch"
ERR_EXPIRED == "Passport expired"
ERR_SANCTIONED == "Nationality sanctioned"
ERR_NOT_OVER_21 == "Not over 21"
ERR_NOT_OVER_18 == "Not over 18"
ERR_DATE_FUTURE == "Proof date in future"
ERR_TOO_OLD == "Proof too old"
ERR_IDENTITY_CONFLICT == "Identity bound to another wallet"
ERR_CRED_MISSING == "Credential does not exist"
ERR_CRED_REVOKED == "Credential is revoked"
ERR_CRED_EXISTS == "Credential already exists"
ERR_CRED_WAS_REVOKED == "Credential was revoked"
ERR_NOT_ISSUER == "Not trusted issuer"
ERR_NOT_AUTHORIZED == "Not authorized to revoke"
ERR_TOO_MANY == "Too many jurisdictions"
ERR_NO_ACCESS == "User does not have access"
ERR_ISSUER_EXISTS == "Issuer already exists"
ERR_ISSUER_MISSING == "Issuer does not exist"
ERR_MISSING_ROLE == "AccessControlUnauthorizedAccount"
ERR_IDENTITY_REGISTERED == "Identity already registered"
ERR_USER_NOT_REGISTERED == "User not registered"
ERR_NOT_GATEWAY == "onlyGateway"

(***************************************************************************)
(* Value sets.                                                             *)
(***************************************************************************)
Addresses == 0..MaxAddr
Senders == 1..MaxAddr
Protocols == 1..MaxProtocol
Users == 0..MaxUser
Nullifiers == 1..MaxNullifier

Bytes32(hi, lo) == [hi |-> hi, lo |-> lo]
HashOf(i) == Bytes32(i % 2, i \div 2)
Hashes == {HashOf(i) : i \in 0..MaxHash}
ZERO_HASH == Bytes32(0, 0)

\* variant: the bits above the low 60 are kept instead
TruncatedHash_HighBits(credentialHash) == credentialHash.hi

\* uint256(credentialHash) & 0xFFFFFFFFFFFFFFF
TruncatedHash(credentialHash) == credentialHash.lo

\* (x & mask) != 0 for a one-bit mask
BitSet(x, mask) == (x \div mask) % 2 = 1

\* uint256(uint160(user))
AddressToUint(user) == user

NoRequirements ==
    [minAge |-> 0, allowedJurisdictions |-> << >>,
     requireAccredited |-> FALSE, isSet |-> FALSE]

VARIABLES
    credentials,            \* CredentialRegistry: credentialHash => exists
    credentialIssuers,      \* credentialHash => issuer
    revokedCredentials,     \* credentialHash => revoked
    trustedIssuers,         \* issuer => isTrusted
    nullifierOwners,        \* nullifier => user address
    userToCredential,       \* user => latest credentialHash
    protocolRequirements,   \* ProtocolAccessControl: protocol => Requirements
    hasAccess,              \* protocol => user => hasAccess
    userCredentials,        \* protocol => user => credentialHash
    blockTimestamp,         \* block.timestamp of the block being built
    mempool,                \* transactions submitted and not yet executed
    mined,                  \* the transaction executed last, until its sender confirms it
    last,                   \* receipt of the transaction executed last
    nullifierUsers,         \* history: nullifier => wallets a successful call carrying it named
    boundVia,               \* history: nullifier => entry point that created its binding
    assignment,             \* ZKKYC: the assignment handed to the prover
    computed,               \* the values Define computes from the assignment
    proverSucceeded,        \* whether the constraint system accepted the assignment
    accessLog,              \* history: the successful grants and revocations, in order
    isRegistered,           \* FHENoahRegistry: user => registered
    encryptedAges,          \* user => age (held encrypted)
    fheTrustedIssuers,      \* FHENoahRegistry.trustedIssuers
    identityNullifiers,     \* nullifier => user address
    fheRequirements,        \* FHEProtocolAccessControl.protocolRequirements
    fheHasAccess,           \* FHEProtocolAccessControl.hasAccess
    requestToUser,          \* requestId => user
    requestToProtocol,      \* requestId => protocol
    requestCounter,         \* the gateway's next request id
    requestLog,             \* history: requestId => what requestAccessVerification recorded
    fheLast                 \* receipt of the last call to the FHE contracts

registryVars == <<credentials, credentialIssuers, revokedCredentials,
                  trustedIssuers, nullifierOwners, userToCredential>>
accessVars == <<protocolRequirements, hasAccess, userCredentials>>
contractVars == <<registryVars, accessVars>>
historyVars == <<nullifierUsers, boundVia>>
ledgerVars == <<contractVars, blockTimestamp, mempool, mined, last, historyVars>>
proverVars == <<assignment, computed, proverSucceeded>>
fheRegistryVars == <<isRegistered, encryptedAges, fheTrustedIssuers,
                     identityNullifiers>>
fheAccessVars == <<fheRequirements, fheHasAccess, requestToUser,
                   requestToProtocol, requestCounter, requestLog>>
fheVars == <<fheRegistryVars, fheAccessVars, fheLast>>
zkVars == <<ledgerVars, proverVars, accessLog>>
vars == <<ledgerVars, proverVars, accessLog, fheVars>>

\* the zero value of the ZKKYC struct
NoAssignment ==
    [ActualAge |-> 0, ActualJurisdiction |-> 0, ActualAccredited |-> 0,
     CredentialHash |-> 0, PassportNumber |-> 0, ExpiryDate |-> 0,
     MinAge |-> 0, AllowedJurisdictions |-> [i \in 0..9 |-> 0],
     RequireAccredited |-> 0, CredentialHashPublic |-> 0,
     RecipientAddress |-> 0, CurrentDate |-> 0,
     SanctionedCountries |-> [i \in 0..9 |-> 0],
     IsValid |-> 0, Nullifier |-> 0, PackedFlags |-> 0]

NoValues ==
    [ageValid |-> 0, jurisdictionValid |-> 0, isNotSanctioned |-> 0,
     expiryValid |-> 0, hashValid |-> 0, accreditationValid |-> 0,
     Nullifier |-> 0, PackedFlags |-> 0, IsValid |-> 0]

\* the zero value of FHEProtocolAccessControl.Requirements
NoFHERequirements == [minAge |-> 0, isSet |-> FALSE]

\* no request was recorded under an id
NoRequest ==
    [protocol |-> ZERO_ADDRESS, user |-> ZERO_ADDRESS,
     isOldEnough |-> FALSE, consumed |-> FALSE]

FHEReceipt(op, err) == [op |-> op, err |-> err, requestId |-> 0, result |-> FALSE]

\* the request ids a callback can carry; MaxRequest is never issued
RequestIds == 0..MaxRequest

\* FHENoahRegistry and FHEProtocolAccessControl after construction
InitFHE ==
    /\ isRegistered = [a \in Addresses |-> FALSE]
    /\ encryptedAges = [a \in Addresses |-> 0]
    /\ fheTrustedIssuers = [a \in Addresses |-> FALSE]
    /\ identityNullifiers = [n \in 1..MaxIdentity |-> ZERO_ADDRESS]
    /\ fheRequirements = [a \in Addresses |-> NoFHERequirements]
    /\ fheHasAccess = [a \in Addresses |-> [u \in Addresses |-> FALSE]]
    /\ requestToUser = [id \in RequestIds |-> ZERO_ADDRESS]
    /\ requestToProtocol = [id \in RequestIds |-> ZERO_ADDRESS]
    /\ requestCounter = 0
    /\ requestLog = [id \in RequestIds |-> NoRequest]
    /\ fheLast = FHEReceipt("none", OK)

\* no assignment has been handed to the prover
InitProver ==
    /\ assignment = NoAssignment
    /\ computed = NoValues
    /\ proverSucceeded = FALSE
    /\ accessLog = << >>

(***************************************************************************)
(* Public signals: uint[28], indexed from 0.  Slots 15..24 (the sanctioned *)
(* countries) are carried and never read by the contracts.                 *)
(***************************************************************************)
ZeroSignals == [i \in 0..(NUM_SIGNALS - 1) |-> 0]

\* the jurisdiction list padded with 0 to the 10 slots of the signals
PaddedSlot(list, i) == IF i < Len(list) THEN list[i + 1] ELSE 0

MakeSignals(minAge, jurisdictions, accredited, hashSignal, userSignal, currentDate, isValid, nullifier, packedFlags) ==
    [i \in 0..(NUM_SIGNALS - 1) |->
        IF i = INDEX_MIN_AGE THEN minAge
        ELSE IF i >= INDEX_JURISDICTION_START
                /\ i < INDEX_JURISDICTION_START + NUM_JURISDICTIONS
             THEN PaddedSlot(jurisdictions, i - INDEX_JURISDICTION_START)
        ELSE IF i = INDEX_ACCREDITED THEN accredited
        ELSE IF i = INDEX_CREDENTIAL_HASH THEN hashSignal
        ELSE IF i = INDEX_USER_ADDRESS THEN userSignal
        ELSE IF i = INDEX_CURRENT_DATE THEN currentDate
        ELSE IF i = INDEX_IS_VALID THEN isValid
        ELSE IF i = INDEX_NULLIFIER THEN nullifier
        ELSE IF i = INDEX_PACKED_FLAGS THEN packedFlags
        ELSE 0]

(***************************************************************************)
(* CredentialRegistry                                                      *)
(***************************************************************************)
\* constructor: _grantRole(DEFAULT_ADMIN_ROLE / ISSUER_MANAGER_ROLE, msg.sender)
HasAdminRole(account) == account = DEPLOYER
HasIssuerManagerRole(account) == account = DEPLOYER

\* variant: the revoked flag is not consulted
isCredentialValid_IgnoresRevocation(credentialHash) ==
    credentials[credentialHash]

isCredentialValid(credentialHash) ==
    credentials[credentialHash] /\ ~revokedCredentials[credentialHash]

\* result is the value a view function returned
Receipt(op, err) == [op |-> op, err |-> err, result |-> FALSE]

\* variant: only the revoked flag stops a registration
RegisterCredentialOutcome_RevokedOnly(sender, credentialHash) ==
    IF ~trustedIssuers[sender] THEN ERR_NOT_ISSUER
    ELSE IF revokedCredentials[credentialHash] THEN ERR_CRED_WAS_REVOKED
    ELSE OK

RegisterCredentialOutcome(sender, credentialHash) ==
    IF ~trustedIssuers[sender] THEN ERR_NOT_ISSUER
    ELSE IF credentials[credentialHash] THEN ERR_CRED_EXISTS
    ELSE IF revokedCredentials[credentialHash] THEN ERR_CRED_WAS_REVOKED
    ELSE OK

registerCredential(sender, credentialHash, user) ==
    LET err == RegisterCredentialOutcome(sender, credentialHash) IN
    /\ last' = Receipt("registerCredential", err)
    /\ IF err = OK
       THEN /\ credentials' = [credentials EXCEPT ![credentialHash] = TRUE]
            /\ credentialIssuers' =
                   [credentialIssuers EXCEPT ![credentialHash] = sender]
            /\ userToCredential' =
                   [userToCredential EXCEPT ![user] = credentialHash]
            /\ UNCHANGED <<revokedCredentials, trustedIssuers, nullifierOwners>>
       ELSE UNCHANGED registryVars
    /\ UNCHANGED <<accessVars, historyVars>>

\* variant: a nullifier can be presented once
RegisterNullifierOutcome_SingleUse(nullifier, credentialHash, user) ==
    IF ~credentials[credentialHash] THEN ERR_CRED_MISSING
    ELSE IF revokedCredentials[credentialHash] THEN ERR_CRED_REVOKED
    ELSE IF nullifierOwners[nullifier] = ZERO_ADDRESS THEN OK
    ELSE ERR_IDENTITY_CONFLICT

RegisterNullifierOutcome(nullifier, credentialHash, user) ==
    IF ~credentials[credentialHash] THEN ERR_CRED_MISSING
    ELSE IF revokedCredentials[credentialHash] THEN ERR_CRED_REVOKED
    ELSE IF nullifierOwners[nullifier] = ZERO_ADDRESS THEN OK
    ELSE IF nullifierOwners[nullifier] # user THEN ERR_IDENTITY_CONFLICT
    ELSE OK

\* variant: the owner of the nullifier is never written
NullifierOwnersAfter_NoWrite(nullifier, user) ==
    nullifierOwners

\* the write of registerNullifier: only an unowned nullifier is written
NullifierOwnersAfter(nullifier, user) ==
    IF nullifierOwners[nullifier] = ZERO_ADDRESS
    THEN [nullifierOwners EXCEPT ![nullifier] = user]
    ELSE nullifierOwners

\* history kept beside the registry for a successful call carrying nullifier
RecordNullifierUse(entry, nullifier, user) ==
    /\ nullifierUsers' =
           [nullifierUsers EXCEPT ![nullifier] = @ \cup {user}]
    /\ boundVia' =
           IF nullifierOwners[nullifier] = ZERO_ADDRESS
              /\ NullifierOwnersAfter(nullifier, user)[nullifier] # ZERO_ADDRESS
           THEN [boundVia EXCEPT ![nullifier] = entry]
           ELSE boundVia

registerNullifier(sender, nullifier, credentialHash, user) ==
    LET err == RegisterNullifierOutcome(nullifier, credentialHash, user) IN
    /\ last' = Receipt("registerNullifier", err)
    /\ IF err = OK
       THEN /\ nullifierOwners' = NullifierOwnersAfter(nullifier, user)
            /\ RecordNullifierUse("registerNullifier", nullifier, user)
       ELSE UNCHANGED <<nullifierOwners, historyVars>>
    /\ UNCHANGED <<credentials, credentialIssuers, revokedCredentials,
                   trustedIssuers, userToCredential, accessVars>>

\* variant: every trusted issuer may revoke
RevokeCredentialOutcome_AnyIssuer(sender, credentialHash) ==
    IF ~credentials[credentialHash] THEN ERR_CRED_MISSING
    ELSE IF ~(trustedIssuers[sender] \/ HasAdminRole(sender))
         THEN ERR_NOT_AUTHORIZED
    ELSE OK

\* variant: the admin may revoke a hash that was never registered
RevokeCredentialOutcome_AdminFirst(sender, credentialHash) ==
    IF HasAdminRole(sender) THEN OK
    ELSE IF ~credentials[credentialHash] THEN ERR_CRED_MISSING
    ELSE IF credentialIssuers[credentialHash] # sender THEN ERR_NOT_AUTHORIZED
    ELSE OK

RevokeCredentialOutcome(sender, credentialHash) ==
    IF ~credentials[credentialHash] THEN ERR_CRED_MISSING
    ELSE IF ~(credentialIssuers[credentialHash] = sender \/ HasAdminRole(sender))
         THEN ERR_NOT_AUTHORIZED
    ELSE OK

\* variant: revocation deletes the credential instead of flagging it
revokeCredential_Deletes(sender, credentialHash) ==
    LET err == RevokeCredentialOutcome(sender, credentialHash) IN
    /\ last' = Receipt("revokeCredential", err)
    /\ IF err = OK
       THEN credentials' = [credentials EXCEPT ![credentialHash] = FALSE]
       ELSE UNCHANGED credentials
    /\ UNCHANGED <<revokedCredentials, credentialIssuers, trustedIssuers,
                   nullifierOwners, userToCredential, accessVars, historyVars>>

revokeCredential(sender, credentialHash) ==
    LET err == RevokeCredentialOutcome(sender, credentialHash) IN
    /\ last' = Receipt("revokeCredential", err)
    /\ IF err = OK
       THEN revokedCredentials' =
               [revokedCredentials EXCEPT ![credentialHash] = TRUE]
       ELSE UNCHANGED revokedCredentials
    /\ UNCHANGED <<credentials, credentialIssuers, trustedIssuers,
                   nullifierOwners, userToCredential, accessVars, historyVars>>

AddIssuerOutcome(sender, issuer) ==
    IF ~HasIssuerManagerRole(sender) THEN ERR_MISSING_ROLE
    ELSE IF trustedIssuers[issuer] THEN ERR_ISSUER_EXISTS
    ELSE OK

addIssuer(sender, issuer) ==
    LET err == AddIssuerOutcome(sender, issuer) IN
    /\ last' = Receipt("addIssuer", err)
    /\ IF err = OK
       THEN trustedIssuers' = [trustedIssuers EXCEPT ![issuer] = TRUE]
       ELSE UNCHANGED trustedIssuers
    /\ UNCHANGED <<credentials, credentialIssuers, revokedCredentials,
                   nullifierOwners, userToCredential, accessVars, historyVars>>

RemoveIssuerOutcome(sender, issuer) ==
    IF ~HasIssuerManagerRole(sender) THEN ERR_MISSING_ROLE
    ELSE IF ~trustedIssuers[issuer] THEN ERR_ISSUER_MISSING
    ELSE OK

removeIssuer(sender, issuer) ==
    LET err == RemoveIssuerOutcome(sender, issuer) IN
    /\ last' = Receipt("removeIssuer", err)
    /\ IF err = OK
       THEN trustedIssuers' = [trustedIssuers EXCEPT ![issuer] = FALSE]
       ELSE UNCHANGED trustedIssuers
    /\ UNCHANGED <<credentials, credentialIssuers, revokedCredentials,
                   nullifierOwners, userToCredential, accessVars, historyVars>>

(***************************************************************************)
(* ProtocolAccessControl                                                   *)
(***************************************************************************)
SetRequirementsOutcome(allowedJurisdictions) ==
    IF Len(allowedJurisdictions) > NUM_JURISDICTIONS THEN ERR_TOO_MANY ELSE OK

\* variant: a new policy ends the grants made under the old one
setRequirements_ResetsAccess(sender, minAge, allowedJurisdictions, requireAccredited) ==
    LET err == SetRequirementsOutcome(allowedJurisdictions) IN
    /\ last' = Receipt("setRequirements", err)
    /\ IF err = OK
       THEN /\ protocolRequirements' =
                   [protocolRequirements EXCEPT ![sender] =
                       [minAge |-> minAge,
                        allowedJurisdictions |-> allowedJurisdictions,
                        requireAccredited |-> requireAccredited,
                        isSet |-> TRUE]]
            /\ hasAccess' =
                   [hasAccess EXCEPT ![sender] = [u \in DOMAIN @ |-> FALSE]]
       ELSE UNCHANGED <<protocolRequirements, hasAccess>>
    /\ UNCHANGED <<registryVars, userCredentials, historyVars>>

\* variant: the accreditation requirement, once set, stays
setRequirements_KeepsAccredited(sender, minAge, allowedJurisdictions, requireAccredited) ==
    LET err == SetRequirementsOutcome(allowedJurisdictions) IN
    /\ last' = Receipt("setRequirements", err)
    /\ IF err = OK
       THEN protocolRequirements' =
               [protocolRequirements EXCEPT ![sender] =
                   [minAge |-> minAge,
                    allowedJurisdictions |-> allowedJurisdictions,
                    requireAccredited |-> requireAccredited \/ @.requireAccredited,
                    isSet |-> TRUE]]
       ELSE UNCHANGED protocolRequirements
    /\ UNCHANGED <<registryVars, hasAccess, userCredentials, historyVars>>

setRequirements(sender, minAge, allowedJurisdictions, requireAccredited) ==
    LET err == SetRequirementsOutcome(allowedJurisdictions) IN
    /\ last' = Receipt("setRequirements", err)
    /\ IF err = OK
       THEN protocolRequirements' =
               [protocolRequirements EXCEPT ![sender] =
                   [minAge |-> minAge,
                    allowedJurisdictions |-> allowedJurisdictions,
                    requireAccredited |-> requireAccredited,
                    isSet |-> TRUE]]
       ELSE UNCHANGED protocolRequirements
    /\ UNCHANGED <<registryVars, hasAccess, userCredentials, historyVars>>

\* variant: every non-zero slot of the proof is looked up in the policy list
JurisdictionsMatch_Subset(req, publicSignals) ==
    \A i \in 0..(NUM_JURISDICTIONS - 1) :
        LET proofJurisdiction == publicSignals[INDEX_JURISDICTION_START + i] IN
        \/ proofJurisdiction = 0
        \/ \E k \in 1..Len(req.allowedJurisdictions) :
              proofJurisdiction = req.allowedJurisdictions[k]

\* the loop over the 10 jurisdiction slots
JurisdictionsMatch(req, publicSignals) ==
    \A i \in 0..(NUM_JURISDICTIONS - 1) :
        LET proofJurisdiction == publicSignals[INDEX_JURISDICTION_START + i] IN
        IF i < Len(req.allowedJurisdictions)
        THEN proofJurisdiction = req.allowedJurisdictions[i + 1]
        ELSE proofJurisdiction = 0

\* variant: every threshold from 18 up asks for the over-18 bit only
AgeFlagOutcome_Over18Only(req, packedFlags) ==
    IF req.minAge >= 18
    THEN (IF BitSet(packedFlags, 1) THEN OK ELSE ERR_NOT_OVER_18)
    ELSE OK

\* the age bit of packedFlags that the policy's threshold asks for
AgeFlagOutcome(req, packedFlags) ==
    IF req.minAge >= 21
    THEN (IF BitSet(packedFlags, 2) THEN OK ELSE ERR_NOT_OVER_21)
    ELSE IF req.minAge >= 18
    THEN (IF BitSet(packedFlags, 1) THEN OK ELSE ERR_NOT_OVER_18)
    ELSE OK

\* the two freshness requires; the subtraction is checked uint256 arithmetic
FreshnessOutcome(currentDate, timestamp) ==
    IF ~(currentDate <= timestamp) THEN ERR_DATE_FUTURE
    ELSE IF timestamp < ONE_HOUR THEN PANIC_UNDERFLOW
    ELSE IF ~(currentDate >= timestamp - ONE_HOUR) THEN ERR_TOO_OLD
    ELSE OK

\* variant: a relying party without a policy is served
VerifyOutcome_NoPolicyCheck(sender, proofValid, publicSignals, credentialHash, user) ==
    LET req == protocolRequirements[sender]
        reqAccredited == IF req.requireAccredited THEN 1 ELSE 0
        packedFlags == publicSignals[INDEX_PACKED_FLAGS]
    IN
    IF ~isCredentialValid(credentialHash) THEN ERR_INVALID_CREDENTIAL
    ELSE IF ~proofValid THEN ERR_INVALID_PROOF
    ELSE IF publicSignals[INDEX_IS_VALID] # 1 THEN ERR_IS_VALID
    ELSE IF publicSignals[INDEX_MIN_AGE] # req.minAge THEN ERR_AGE_MISMATCH
    ELSE IF ~JurisdictionsMatch(req, publicSignals) THEN ERR_JURISDICTION
    ELSE IF publicSignals[INDEX_ACCREDITED] # reqAccredited THEN ERR_ACCREDITATION
    ELSE IF publicSignals[INDEX_USER_ADDRESS] # AddressToUint(user)
         THEN ERR_NOT_BOUND
    ELSE IF publicSignals[INDEX_CREDENTIAL_HASH] # TruncatedHash(credentialHash)
         THEN ERR_HASH_MISMATCH
    ELSE IF ~BitSet(packedFlags, 4) THEN ERR_EXPIRED
    ELSE IF ~BitSet(packedFlags, 8) THEN ERR_SANCTIONED
    ELSE IF AgeFlagOutcome(req, packedFlags) # OK
         THEN AgeFlagOutcome(req, packedFlags)
    ELSE IF FreshnessOutcome(publicSignals[INDEX_CURRENT_DATE], blockTimestamp) # OK
         THEN FreshnessOutcome(publicSignals[INDEX_CURRENT_DATE], blockTimestamp)
    ELSE RegisterNullifierOutcome(publicSignals[INDEX_NULLIFIER],
                                  credentialHash, user)

\* variant: the wallet binding require is missing
VerifyOutcome_NoWalletBinding(sender, proofValid, publicSignals, credentialHash, user) ==
    LET req == protocolRequirements[sender]
        reqAccredited == IF req.requireAccredited THEN 1 ELSE 0
        packedFlags == publicSignals[INDEX_PACKED_FLAGS]
    IN
    IF ~req.isSet THEN ERR_REQ_NOT_SET
    ELSE IF ~isCredentialValid(credentialHash) THEN ERR_INVALID_CREDENTIAL
    ELSE IF ~proofValid THEN ERR_INVALID_PROOF
    ELSE IF publicSignals[INDEX_IS_VALID] # 1 THEN ERR_IS_VALID
    ELSE IF publicSignals[INDEX_MIN_AGE] # req.minAge THEN ERR_AGE_MISMATCH
    ELSE IF ~JurisdictionsMatch(req, publicSignals) THEN ERR_JURISDICTION
    ELSE IF publicSignals[INDEX_ACCREDITED] # reqAccredited THEN ERR_ACCREDITATION
    ELSE IF publicSignals[INDEX_CREDENTIAL_HASH] # TruncatedHash(credentialHash)
         THEN ERR_HASH_MISMATCH
    ELSE IF ~BitSet(packedFlags, 4) THEN ERR_EXPIRED
    ELSE IF ~BitSet(packedFlags, 8) THEN ERR_SANCTIONED
    ELSE IF AgeFlagOutcome(req, packedFlags) # OK
         THEN AgeFlagOutcome(req, packedFlags)
    ELSE IF FreshnessOutcome(publicSignals[INDEX_CURRENT_DATE], blockTimestamp) # OK
         THEN FreshnessOutcome(publicSignals[INDEX_CURRENT_DATE], blockTimestamp)
    ELSE RegisterNullifierOutcome(publicSignals[INDEX_NULLIFIER],
                                  credentialHash, user)

\* variant: the sanctions bit is required before the expiry bit
VerifyOutcome_SanctionedFirst(sender, proofValid, publicSignals, credentialHash, user) ==
    LET req == protocolRequirements[sender]
        reqAccredited == IF req.requireAccredited THEN 1 ELSE 0
        packedFlags == publicSignals[INDEX_PACKED_FLAGS]
    IN
    IF ~req.isSet THEN ERR_REQ_NOT_SET
    ELSE IF ~isCredentialValid(credentialHash) THEN ERR_INVALID_CREDENTIAL
    ELSE IF ~proofValid THEN ERR_INVALID_PROOF
    ELSE IF publicSignals[INDEX_IS_VALID] # 1 THEN ERR_IS_VALID
    ELSE IF publicSignals[INDEX_MIN_AGE] # req.minAge THEN ERR_AGE_MISMATCH
    ELSE IF ~JurisdictionsMatch(req, publicSignals) THEN ERR_JURISDICTION
    ELSE IF publicSignals[INDEX_ACCREDITED] # reqAccredited THEN ERR_ACCREDITATION
    ELSE IF publicSignals[INDEX_USER_ADDRESS] # AddressToUint(user)
         THEN ERR_NOT_BOUND
    ELSE IF publicSignals[INDEX_CREDENTIAL_HASH] # TruncatedHash(credentialHash)
         THEN ERR_HASH_MISMATCH
    ELSE IF ~BitSet(packedFlags, 8) THEN ERR_SANCTIONED
    ELSE IF ~BitSet(packedFlags, 4) THEN ERR_EXPIRED
    ELSE IF AgeFlagOutcome(req, packedFlags) # OK
         THEN AgeFlagOutcome(req, packedFlags)
    ELSE IF FreshnessOutcome(publicSignals[INDEX_CURRENT_DATE], blockTimestamp) # OK
         THEN FreshnessOutcome(publicSignals[INDEX_CURRENT_DATE], blockTimestamp)
    ELSE RegisterNullifierOutcome(publicSignals[INDEX_NULLIFIER],
                                  credentialHash, user)

\* the requires of verifyAndGrantAccess in program order, then the call
\* into the registry
VerifyOutcome(sender, proofValid, publicSignals, credentialHash, user) ==
    LET req == protocolRequirements[sender]
        reqAccredited == IF req.requireAccredited THEN 1 ELSE 0
        packedFlags == publicSignals[INDEX_PACKED_FLAGS]
    IN
    IF ~req.isSet THEN ERR_REQ_NOT_SET
    ELSE IF ~isCredentialValid(credentialHash) THEN ERR_INVALID_CREDENTIAL
    ELSE IF ~proofValid THEN ERR_INVALID_PROOF
    ELSE IF publicSignals[INDEX_IS_VALID] # 1 THEN ERR_IS_VALID
    ELSE IF publicSignals[INDEX_MIN_AGE] # req.minAge THEN ERR_AGE_MISMATCH
    ELSE IF ~JurisdictionsMatch(req, publicSignals) THEN ERR_JURISDICTION
    ELSE IF publicSignals[INDEX_ACCREDITED] # reqAccredited THEN ERR_ACCREDITATION
    ELSE IF publicSignals[INDEX_USER_ADDRESS] # AddressToUint(user)
         THEN ERR_NOT_BOUND
    ELSE IF publicSignals[INDEX_CREDENTIAL_HASH] # TruncatedHash(credentialHash)
         THEN ERR_HASH_MISMATCH
    ELSE IF ~BitSet(packedFlags, 4) THEN ERR_EXPIRED
    ELSE IF ~BitSet(packedFlags, 8) THEN ERR_SANCTIONED
    ELSE IF AgeFlagOutcome(req, packedFlags) # OK
         THEN AgeFlagOutcome(req, packedFlags)
    ELSE IF FreshnessOutcome(publicSignals[INDEX_CURRENT_DATE], blockTimestamp) # OK
         THEN FreshnessOutcome(publicSignals[INDEX_CURRENT_DATE], blockTimestamp)
    ELSE RegisterNullifierOutcome(publicSignals[INDEX_NULLIFIER],
                                  credentialHash, user)

\* variant: the grant is written although the registry call failed
verifyAndGrantAccess_GrantsOnConflict(sender, proofValid, publicSignals, credentialHash, user) ==
    LET err == VerifyOutcome(sender, proofValid, publicSignals,
                             credentialHash, user)
        nullifier == publicSignals[INDEX_NULLIFIER]
    IN
    /\ last' = Receipt("verifyAndGrantAccess", err)
    /\ IF err = OK
       THEN /\ nullifierOwners' = NullifierOwnersAfter(nullifier, user)
            /\ RecordNullifierUse("verifyAndGrantAccess", nullifier, user)
       ELSE UNCHANGED <<nullifierOwners, historyVars>>
    /\ IF err \in {OK, ERR_IDENTITY_CONFLICT}
       THEN /\ hasAccess' = [hasAccess EXCEPT ![sender][user] = TRUE]
            /\ userCredentials' =
                   [userCredentials EXCEPT ![sender][user] = credentialHash]
       ELSE UNCHANGED <<hasAccess, userCredentials>>
    /\ UNCHANGED <<credentials, credentialIssuers, revokedCredentials,
                   trustedIssuers, userToCredential, protocolRequirements>>

verifyAndGrantAccess(sender, proofValid, publicSignals, credentialHash, user) ==
    LET err == VerifyOutcome(sender, proofValid, publicSignals,
                             credentialHash, user)
        nullifier == publicSignals[INDEX_NULLIFIER]
    IN
    /\ last' = Receipt("verifyAndGrantAccess", err)
    /\ IF err = OK
       THEN /\ nullifierOwners' = NullifierOwnersAfter(nullifier, user)
            /\ RecordNullifierUse("verifyAndGrantAccess", nullifier, user)
            /\ hasAccess' = [hasAccess EXCEPT ![sender][user] = TRUE]
            /\ userCredentials' =
                   [userCredentials EXCEPT ![sender][user] = credentialHash]
       ELSE UNCHANGED <<nullifierOwners, historyVars, hasAccess, userCredentials>>
    /\ UNCHANGED <<credentials, credentialIssuers, revokedCredentials,
                   trustedIssuers, userToCredential, protocolRequirements>>

\* a view: returns the flag and writes nothing
checkAccess(sender, user) ==
    /\ last' = [Receipt("checkAccess", OK) EXCEPT
                   !.result = hasAccess[sender][user]]
    /\ UNCHANGED <<contractVars, historyVars>>

RevokeAccessOutcome(sender, user) ==
    IF ~hasAccess[sender][user] THEN ERR_NO_ACCESS ELSE OK

\* variant: the user's flag is cleared at every relying party
revokeAccess_AllProtocols(sender, user) ==
    LET err == RevokeAccessOutcome(sender, user) IN
    /\ last' = Receipt("revokeAccess", err)
    /\ IF err = OK
       THEN hasAccess' = [q \in DOMAIN hasAccess |->
                            [hasAccess[q] EXCEPT ![user] = FALSE]]
       ELSE UNCHANGED hasAccess
    /\ UNCHANGED <<registryVars, protocolRequirements, userCredentials,
                   historyVars>>

\* variant: the recorded credential hash is cleared with the flag
revokeAccess_ClearsCredential(sender, user) ==
    LET err == RevokeAccessOutcome(sender, user) IN
    /\ last' = Receipt("revokeAccess", err)
    /\ IF err = OK
       THEN /\ hasAccess' = [hasAccess EXCEPT ![sender][user] = FALSE]
            /\ userCredentials' =
                   [userCredentials EXCEPT ![sender][user] = ZERO_HASH]
       ELSE UNCHANGED <<hasAccess, userCredentials>>
    /\ UNCHANGED <<registryVars, protocolRequirements, historyVars>>

revokeAccess(sender, user) ==
    LET err == RevokeAccessOutcome(sender, user) IN
    /\ last' = Receipt("revokeAccess", err)
    /\ IF err = OK
       THEN hasAccess' = [hasAccess EXCEPT ![sender][user] = FALSE]
       ELSE UNCHANGED hasAccess
    /\ UNCHANGED <<registryVars, protocolRequirements, userCredentials,
                   historyVars>>

(***************************************************************************)
(* Transactions.  One record shape for every entry point; the fields an    *)
(* entry point does not take keep the values of NoTx.                      *)
(***************************************************************************)
NoTx ==
    [op |-> "none", sender |-> ZERO_ADDRESS, user |-> ZERO_ADDRESS,
     credentialHash |-> ZERO_HASH, nullifier |-> 0, proofValid |-> FALSE,
     publicSignals |-> ZeroSignals, minAge |-> 0,
     allowedJurisdictions |-> << >>, requireAccredited |-> FALSE,
     issuer |-> ZERO_ADDRESS]

TxRegisterCredential(sender, credentialHash, user) ==
    [NoTx EXCEPT !.op = "registerCredential", !.sender = sender,
                 !.credentialHash = credentialHash, !.user = user]
TxRegisterNullifier(sender, nullifier, credentialHash, user) ==
    [NoTx EXCEPT !.op = "registerNullifier", !.sender = sender,
                 !.nullifier = nullifier,
                 !.credentialHash = credentialHash, !.user = user]
TxRevokeCredential(sender, credentialHash) ==
    [NoTx EXCEPT !.op = "revokeCredential", !.sender = sender,
                 !.credentialHash = credentialHash]
TxAddIssuer(sender, issuer) ==
    [NoTx EXCEPT !.op = "addIssuer", !.sender = sender, !.issuer = issuer]
TxRemoveIssuer(sender, issuer) ==
    [NoTx EXCEPT !.op = "removeIssuer", !.sender = sender, !.issuer = issuer]
TxSetRequirements(sender, minAge, allowedJurisdictions, requireAccredited) ==
    [NoTx EXCEPT !.op = "setRequirements", !.sender = sender,
                 !.minAge = minAge,
                 !.allowedJurisdictions = allowedJurisdictions,
                 !.requireAccredited = requireAccredited]
TxVerifyAndGrantAccess(sender, proofValid, publicSignals, credentialHash, user) ==
    [NoTx EXCEPT !.op = "verifyAndGrantAccess", !.sender = sender,
                 !.proofValid = proofValid, !.publicSignals = publicSignals,
                 !.credentialHash = credentialHash, !.user = user]
TxRevokeAccess(sender, user) ==
    [NoTx EXCEPT !.op = "revokeAccess", !.sender = sender, !.user = user]
TxCheckAccess(sender, user) ==
    [NoTx EXCEPT !.op = "checkAccess", !.sender = sender, !.user = user]

(***************************************************************************)
(* Execution: the ledger takes one transaction out of the mempool and runs *)
(* the whole call.                                                         *)
(***************************************************************************)
Take(tx) == /\ mempool' = mempool \ {tx}
            /\ mined' = tx
            /\ UNCHANGED <<blockTimestamp, proverVars, accessLog, fheVars>>

ExecRegisterCredential ==
    \E tx \in mempool :
        /\ tx.op = "registerCredential"
        /\ registerCredential(tx.sender, tx.credentialHash, tx.user)
        /\ Take(tx)

ExecRegisterNullifier ==
    \E tx \in mempool :
        /\ tx.op = "registerNullifier"
        /\ registerNullifier(tx.sender, tx.nullifier, tx.credentialHash, tx.user)
        /\ Take(tx)

ExecRevokeCredential ==
    \E tx \in mempool :
        /\ tx.op = "revokeCredential"
        /\ revokeCredential(tx.sender, tx.credentialHash)
        /\ Take(tx)

ExecAddIssuer ==
    \E tx \in mempool :
        /\ tx.op = "addIssuer"
        /\ addIssuer(tx.sender, tx.issuer)
        /\ Take(tx)

ExecRemoveIssuer ==
    \E tx \in mempool :
        /\ tx.op = "removeIssuer"
        /\ removeIssuer(tx.sender, tx.issuer)
        /\ Take(tx)

ExecSetRequirements ==
    \E tx \in mempool :
        /\ tx.op = "setRequirements"
        /\ setRequirements(tx.sender, tx.minAge, tx.allowedJurisdictions,
                           tx.requireAccredited)
        /\ Take(tx)

ExecVerifyAndGrantAccess ==
    \E tx \in mempool :
        /\ tx.op = "verifyAndGrantAccess"
        /\ verifyAndGrantAccess(tx.sender, tx.proofValid, tx.publicSignals,
                                tx.credentialHash, tx.user)
        /\ Take(tx)

ExecRevokeAccess ==
    \E tx \in mempool :
        /\ tx.op = "revokeAccess"
        /\ revokeAccess(tx.sender, tx.user)
        /\ Take(tx)

ExecCheckAccess ==
    \E tx \in mempool :
        /\ tx.op = "checkAccess"
        /\ checkAccess(tx.sender, tx.user)
        /\ Take(tx)

Execute ==
    \/ ExecRegisterCredential
    \/ ExecRegisterNullifier
    \/ ExecRevokeCredential
    \/ ExecAddIssuer
    \/ ExecRemoveIssuer
    \/ ExecSetRequirements
    \/ ExecVerifyAndGrantAccess
    \/ ExecRevokeAccess

(***************************************************************************)
(* The ledger after the two constructors have run.                         *)
(***************************************************************************)
GENESIS_TIME == 2 * ONE_HOUR

InitContracts ==
    /\ credentials = [h \in Hashes |-> FALSE]
    /\ credentialIssuers = [h \in Hashes |-> ZERO_ADDRESS]
    /\ revokedCredentials = [h \in Hashes |-> FALSE]
    /\ trustedIssuers = [a \in Addresses |-> FALSE]
    /\ nullifierOwners = [n \in Nullifiers |-> ZERO_ADDRESS]
    /\ userToCredential = [a \in Addresses |-> ZERO_HASH]
    /\ protocolRequirements = [a \in Addresses |-> NoRequirements]
    /\ hasAccess = [a \in Addresses |-> [u \in Addresses |-> FALSE]]
    /\ userCredentials = [a \in Addresses |-> [u \in Addresses |-> ZERO_HASH]]

InitHistory ==
    /\ nullifierUsers = [n \in Nullifiers |-> {}]
    /\ boundVia = [n \in Nullifiers |-> "none"]

NoReceipt == Receipt("none", OK)

Init ==
    /\ InitContracts
    /\ InitHistory
    /\ InitProver
    /\ InitFHE
    /\ blockTimestamp = GENESIS_TIME
    /\ mempool = {}
    /\ mined = NoTx
    /\ last = NoReceipt

(***************************************************************************)
(* Transactions the accounts submit.                                       *)
(***************************************************************************)
\* jurisdiction lists <<1>>, <<1, 2>>, <<1, 2, 1>>, ...
JurisdictionList(len) == [i \in 1..len |-> ((i - 1) % MaxJurisdiction) + 1]

\* the public signals of a proof made at currentDate for the policy req
SignalsFor(req, credentialHash, userSignal, nullifier, currentDate) ==
    MakeSignals(req.minAge, req.allowedJurisdictions,
                IF req.requireAccredited THEN 1 ELSE 0,
                TruncatedHash(credentialHash), userSignal,
                currentDate, 1, nullifier, 15)

\* the public signals of a proof made now for sender's policy
MatchingSignals(sender, credentialHash, userSignal, nullifier) ==
    SignalsFor(protocolRequirements[sender], credentialHash, userSignal,
               nullifier, blockTimestamp)

SpecHashes == {HashOf(i) : i \in 1..MaxSpecHash}

RegistryTxs ==
    {TxAddIssuer(s, DEPLOYER) : s \in Senders}
    \cup {TxRemoveIssuer(s, DEPLOYER) : s \in Senders}
    \cup {TxRegisterCredential(s, h, DEPLOYER) : s \in Senders, h \in SpecHashes}
    \cup {TxRevokeCredential(s, h) : s \in Senders, h \in SpecHashes}
    \cup {TxRegisterNullifier(s, n, h, u) :
            s \in Senders, n \in Nullifiers, h \in SpecHashes, u \in Users}

AccessTxs ==
    {TxSetRequirements(p, 18, JurisdictionList(len), FALSE) :
        p \in Protocols, len \in {1, NUM_JURISDICTIONS + 1}}
    \cup {TxRevokeAccess(p, u) : p \in Protocols, u \in Users}
    \cup {TxVerifyAndGrantAccess(p, ok, MatchingSignals(p, h, su, n), h, u) :
            p \in Protocols, ok \in BOOLEAN, h \in SpecHashes,
            su \in Users, n \in Nullifiers, u \in Users}

\* transactions are serialized: one is in flight at a time
Submit ==
    /\ mempool = {}
    /\ mined = NoTx
    /\ \E tx \in RegistryTxs \cup AccessTxs : mempool' = {tx}
    /\ UNCHANGED <<contractVars, blockTimestamp, mined, last, historyVars,
                   proverVars, accessLog, fheVars>>

\* the sender has read the receipt
Confirm ==
    /\ mined # NoTx
    /\ mined' = NoTx
    /\ last' = NoReceipt
    /\ UNCHANGED <<contractVars, blockTimestamp, mempool, historyVars,
                   proverVars, accessLog, fheVars>>

Next ==
    \/ Submit
    \/ Confirm
    \/ Execute

Spec == Init /\ [][Next]_vars

(***************************************************************************)
(* Two verifications in flight at once.  The registry holds the active     *)
(* credentials of SpecHashes, each relying party has set a policy or none, *)
(* no nullifier is bound yet, and two accounts have each submitted a       *)
(* verifyAndGrantAccess; the ledger executes them in either order.         *)
(***************************************************************************)
Policy(minAge, allowedJurisdictions, requireAccredited) ==
    [minAge |-> minAge, allowedJurisdictions |-> allowedJurisdictions,
     requireAccredited |-> requireAccredited, isSet |-> TRUE]

PairPolicies ==
    {NoRequirements, Policy(18, JurisdictionList(1), FALSE),
     Policy(21, JurisdictionList(1), FALSE)}

\* the registry after DEPLOYER made itself an issuer and registered hashes
InitRegisteredLatest(hashes, latest) ==
    /\ credentials = [h \in Hashes |-> h \in hashes]
    /\ credentialIssuers =
           [h \in Hashes |-> IF h \in hashes THEN DEPLOYER ELSE ZERO_ADDRESS]
    /\ trustedIssuers = [a \in Addresses |-> a = DEPLOYER]
    /\ userToCredential =
           [a \in Addresses |-> IF a = DEPLOYER THEN latest ELSE ZERO_HASH]

\* the hashes were registered in any order
InitRegistered(hashes) ==
    \E latest \in hashes : InitRegisteredLatest(hashes, latest)

PairTxs(policies) ==
    {TxVerifyAndGrantAccess(
         p, ok, SignalsFor(policies[q], h, su, n, GENESIS_TIME), h, u) :
       p \in Protocols, q \in Protocols, ok \in BOOLEAN, h \in SpecHashes,
       su \in Users, n \in Nullifiers, u \in Users}

InitPair ==
    /\ InitRegistered(SpecHashes)
    /\ revokedCredentials = [h \in Hashes |-> FALSE]
    /\ nullifierOwners = [n \in Nullifiers |-> ZERO_ADDRESS]
    /\ InitHistory
    /\ InitProver
    /\ InitFHE
    /\ hasAccess = [a \in Addresses |-> [u \in Addresses |-> FALSE]]
    /\ userCredentials = [a \in Addresses |-> [u \in Addresses |-> ZERO_HASH]]
    /\ blockTimestamp = GENESIS_TIME
    /\ mined = NoTx
    /\ last = NoReceipt
    /\ \E policies \in [Protocols -> PairPolicies] :
          /\ protocolRequirements =
                 [a \in Addresses |->
                     IF a \in Protocols THEN policies[a] ELSE NoRequirements]
          /\ \E t1 \in PairTxs(policies), t2 \in PairTxs(policies) :
                 /\ t1 # t2
                 /\ mempool = {t1, t2}

NextPair == ExecVerifyAndGrantAccess

SpecPair == InitPair /\ [][NextPair]_vars

(***************************************************************************)
(* One verification against every kind of state and input.  The ledger    *)
(* holds some policy of the relying party, the credentials of CheckHashes  *)
(* (two of them equal in their low 60 bits, one different) active or       *)
(* revoked, ZERO_HASH absent, the nullifier unbound or                     *)
(* bound, at some block time; the relying party submits one verification  *)
(* whose inputs differ from those of a proof made for that policy, hash,   *)
(* user and time in at most MaxDeviations places.                          *)
(***************************************************************************)
CheckProtocol == MaxProtocol
CheckHashes == {HashOf(i) : i \in 1..MaxHash}
CheckUsers == 0..1
CheckAges == {17, 18, 21}
CheckTimes == {ONE_HOUR \div 2, ONE_HOUR, 2 * ONE_HOUR}
DateOffsets == {0 - (ONE_HOUR + 1), 0 - ONE_HOUR, 0, 1}

CheckPolicies ==
    {NoRequirements, Policy(21, JurisdictionList(1), TRUE)}
    \cup {Policy(a, JurisdictionList(len), FALSE) :
            a \in CheckAges, len \in 0..MaxJurisdiction}

Reverse(list) == [i \in 1..Len(list) |-> list[Len(list) + 1 - i]]

SignalLists ==
    {JurisdictionList(len) : len \in 0..MaxJurisdiction}
    \cup {Reverse(JurisdictionList(MaxJurisdiction))}

\* the inputs of a verifyAndGrantAccess made for req, hash, user at time t
MatchingInput(req, credentialHash, user, nullifier, t) ==
    [proofValid |-> TRUE, isValid |-> 1, minAge |-> req.minAge,
     jurisdictions |-> req.allowedJurisdictions,
     accredited |-> IF req.requireAccredited THEN 1 ELSE 0,
     hashSignal |-> TruncatedHash(credentialHash), userSignal |-> user,
     currentDate |-> t, nullifier |-> nullifier, packedFlags |-> 15]

\* every input that differs from v in at most one field
Deviate(v, t) ==
    {[v EXCEPT !.proofValid = x] : x \in BOOLEAN}
    \cup {[v EXCEPT !.isValid = x] : x \in {0, 1}}
    \cup {[v EXCEPT !.minAge = x] : x \in CheckAges}
    \cup {[v EXCEPT !.jurisdictions = x] : x \in SignalLists}
    \cup {[v EXCEPT !.accredited = x] : x \in {0, 1}}
    \cup {[v EXCEPT !.hashSignal = TruncatedHash(h)] : h \in CheckHashes}
    \cup {[v EXCEPT !.userSignal = x] : x \in Users}
    \cup {[v EXCEPT !.currentDate = t + d] : d \in {d \in DateOffsets : t + d >= 0}}
    \cup {[v EXCEPT !.nullifier = x] : x \in Nullifiers}
    \cup {[v EXCEPT !.packedFlags = x] : x \in 0..15}

RECURSIVE Deviations(_, _, _)
Deviations(v, t, k) ==
    IF k = 0 THEN {v}
    ELSE UNION {Deviate(w, t) : w \in Deviations(v, t, k - 1)}

TxOfInput(sender, v, credentialHash, user) ==
    TxVerifyAndGrantAccess(
        sender, v.proofValid,
        MakeSignals(v.minAge, v.jurisdictions, v.accredited, v.hashSignal,
                    v.userSignal, v.currentDate, v.isValid, v.nullifier,
                    v.packedFlags),
        credentialHash, user)

InitChecks ==
    /\ InitRegisteredLatest(CheckHashes, HashOf(MaxHash))
    /\ InitProver
    /\ InitFHE
    /\ hasAccess = [a \in Addresses |-> [u \in Addresses |-> FALSE]]
    /\ userCredentials = [a \in Addresses |-> [u \in Addresses |-> ZERO_HASH]]
    /\ mempool = {}
    /\ mined = NoTx
    /\ last = NoReceipt
    /\ blockTimestamp \in CheckTimes
    /\ \E revoked \in BOOLEAN :
          revokedCredentials = [h \in Hashes |-> credentials[h] /\ revoked]
    /\ \E n \in Nullifiers, owner \in Users :
          /\ nullifierOwners = [m \in Nullifiers |->
                                  IF m = n THEN owner ELSE ZERO_ADDRESS]
          /\ nullifierUsers = [m \in Nullifiers |->
                                  IF m = n /\ owner # ZERO_ADDRESS
                                  THEN {owner} ELSE {}]
          /\ boundVia = [m \in Nullifiers |->
                            IF m = n /\ owner # ZERO_ADDRESS
                            THEN "registerNullifier" ELSE "none"]
    /\ \E req \in CheckPolicies :
          protocolRequirements =
              [a \in Addresses |->
                  IF a = CheckProtocol THEN req ELSE NoRequirements]

\* the relying party submits its one verification
SubmitCheck ==
    /\ mempool = {}
    /\ mined = NoTx
    /\ \E h \in CheckHashes \cup {ZERO_HASH}, u \in CheckUsers,
          n \in Nullifiers :
         \E v \in Deviations(
                   MatchingInput(protocolRequirements[CheckProtocol],
                                 h, u, n, blockTimestamp),
                   blockTimestamp, MaxDeviations) :
            mempool' = {TxOfInput(CheckProtocol, v, h, u)}
    /\ UNCHANGED <<contractVars, blockTimestamp, mined, last, historyVars,
                   proverVars, accessLog, fheVars>>

NextChecks ==
    \/ SubmitCheck
    \/ ExecVerifyAndGrantAccess

SpecChecks == InitChecks /\ [][NextChecks]_vars

(***************************************************************************)
(* The registry alone, with two accounts that can each be made an issuer:  *)
(* DEPLOYER, which holds the admin role, and one account without a role.   *)
(***************************************************************************)
RegistryHashes == {HashOf(i) : i \in 1..MaxRegistryHash}

IssuerTxs ==
    {TxAddIssuer(s, i) : s \in Senders, i \in Senders}
    \cup {TxRemoveIssuer(s, i) : s \in Senders, i \in Senders}

CredentialTxs ==
    {TxRegisterCredential(s, h, u) :
        s \in Senders, h \in RegistryHashes, u \in Senders}
    \cup {TxRevokeCredential(s, h) : s \in Senders, h \in RegistryHashes}

SubmitRegistry ==
    /\ mempool = {}
    /\ mined = NoTx
    /\ \E tx \in IssuerTxs \cup CredentialTxs : mempool' = {tx}
    /\ UNCHANGED <<contractVars, blockTimestamp, mined, last, historyVars,
                   proverVars, accessLog, fheVars>>

NextRegistry ==
    \/ SubmitRegistry
    \/ Confirm
    \/ ExecRegisterCredential
    \/ ExecRevokeCredential
    \/ ExecAddIssuer
    \/ ExecRemoveIssuer

SpecRegistry == Init /\ [][NextRegistry]_vars

(***************************************************************************)
(* The relying parties over time.  The registry holds one active           *)
(* credential; each relying party sets and overwrites its policy, grants   *)
(* and revokes access with one of two nullifiers, and the issuer may       *)
(* revoke the credential.  accessLog keeps the successful grants and       *)
(* revocations in order; the run ends after MaxLog of them.                *)
(***************************************************************************)
AccessHash == HashOf(1)
AccessUsers == 1..MaxUser
AccessNullifiers == 1..MaxAccessNullifier

\* the arguments of setRequirements: two policies and a list of 11
AccessPolicies ==
    {Policy(18, JurisdictionList(2), FALSE),
     Policy(21, JurisdictionList(1), TRUE),
     Policy(18, JurisdictionList(NUM_JURISDICTIONS + 1), FALSE)}

PolicyTxs ==
    {TxSetRequirements(p, req.minAge, req.allowedJurisdictions,
                       req.requireAccredited) :
        p \in Protocols, req \in AccessPolicies}

\* proofs made now for the policy of the caller and the wallet named
GrantTxs ==
    {TxVerifyAndGrantAccess(p, TRUE, MatchingSignals(p, h, u, n), h, u) :
        p \in Protocols, h \in {AccessHash, ZERO_HASH},
        u \in AccessUsers, n \in AccessNullifiers}

RevokeTxs ==
    {TxRevokeAccess(p, u) : p \in Protocols, u \in AccessUsers}
    \cup {TxCheckAccess(p, u) : p \in Protocols, u \in AccessUsers}
    \cup {TxRevokeCredential(DEPLOYER, AccessHash)}

InitAccess ==
    /\ InitRegisteredLatest({AccessHash}, AccessHash)
    /\ revokedCredentials = [h \in Hashes |-> FALSE]
    /\ nullifierOwners = [n \in AccessNullifiers |-> ZERO_ADDRESS]
    /\ nullifierUsers = [n \in AccessNullifiers |-> {}]
    /\ boundVia = [n \in AccessNullifiers |-> "none"]
    /\ protocolRequirements = [a \in Addresses |-> NoRequirements]
    /\ hasAccess = [a \in Addresses |-> [u \in Addresses |-> FALSE]]
    /\ userCredentials = [a \in Addresses |-> [u \in Addresses |-> ZERO_HASH]]
    /\ InitProver
    /\ InitFHE
    /\ blockTimestamp = GENESIS_TIME
    /\ mempool = {}
    /\ mined = NoTx
    /\ last = NoReceipt

SubmitAccess ==
    /\ mempool = {}
    /\ mined = NoTx
    /\ Len(accessLog) < MaxLog
    /\ \E tx \in PolicyTxs \cup GrantTxs \cup RevokeTxs : mempool' = {tx}
    /\ UNCHANGED <<contractVars, blockTimestamp, mined, last, historyVars,
                   proverVars, accessLog, fheVars>>

\* what accessLog keeps of a successful call
LogEntry(tx) ==
    [op |-> tx.op, sender |-> tx.sender, user |-> tx.user,
     nullifier |-> tx.publicSignals[INDEX_NULLIFIER],
     minAge |-> tx.publicSignals[INDEX_MIN_AGE],
     fresh |-> /\ tx.op = "verifyAndGrantAccess"
               /\ nullifierUsers[tx.publicSignals[INDEX_NULLIFIER]] = {}]

TakeLogged(tx) ==
    /\ mempool' = mempool \ {tx}
    /\ mined' = tx
    /\ accessLog' = IF last'.err = OK
                    THEN Append(accessLog, LogEntry(tx))
                    ELSE accessLog
    /\ UNCHANGED <<blockTimestamp, proverVars, fheVars>>

ExecVerifyLogged ==
    \E tx \in mempool :
        /\ tx.op = "verifyAndGrantAccess"
        /\ verifyAndGrantAccess(tx.sender, tx.proofValid, tx.publicSignals,
                                tx.credentialHash, tx.user)
        /\ TakeLogged(tx)

ExecRevokeLogged ==
    \E tx \in mempool :
        /\ tx.op = "revokeAccess"
        /\ revokeAccess(tx.sender, tx.user)
        /\ TakeLogged(tx)

NextAccess ==
    \/ SubmitAccess
    \/ Confirm
    \/ ExecSetRequirements
    \/ ExecRevokeCredential
    \/ ExecVerifyLogged
    \/ ExecRevokeLogged
    \/ ExecCheckAccess

SpecAccess == InitAccess /\ [][NextAccess]_vars

(***************************************************************************)
(* The ZKKYC circuit.  A frontend.Variable is an element of the scalar     *)
(* field; every input of the model is far below the modulus p, so an       *)
(* integer n >= 0 stands for itself and n < 0 for p + n (api.Sub(0, 1) is  *)
(* -1).  api.Cmp compares the canonical representatives in 0..p-1.         *)
(***************************************************************************)
NUM_SLOTS == 10
AGE_18 == 18
AGE_21 == 21

\* a < b as representatives in 0..p-1
FieldLess(a, b) ==
    IF (a >= 0) = (b >= 0) THEN a < b ELSE a >= 0

\* api.Cmp: 1 if i1 > i2, 0 if i1 = i2, -1 if i1 < i2
Cmp(i1, i2) ==
    IF i1 = i2 THEN 0 ELSE IF FieldLess(i1, i2) THEN -1 ELSE 1

\* api.IsZero
IsZero(x) == IF x = 0 THEN 1 ELSE 0

\* matches[0] + ... + matches[n - 1] of checkJurisdiction
RECURSIVE SumOfMatches(_, _, _)
SumOfMatches(actual, allowed, n) ==
    IF n = 0 THEN 0
    ELSE LET isNonZero == Cmp(allowed[n - 1], 0)
             isMatch == IsZero(actual - allowed[n - 1])
         IN SumOfMatches(actual, allowed, n - 1) + isNonZero * isMatch

\* variant: the sum of the matches is returned as it is
checkJurisdiction_MatchCount(actual, allowed) ==
    SumOfMatches(actual, allowed, NUM_SLOTS)

checkJurisdiction(actual, allowed) ==
    Cmp(SumOfMatches(actual, allowed, NUM_SLOTS), 0)

checkSanctions(actual, sanctioned) ==
    1 - checkJurisdiction(actual, sanctioned)

checkAccreditation(actual, required) ==
    LET notRequired == IsZero(required)
        matches == IsZero(actual - required)
        notRequiredComplement == 1 - notRequired
        requiredAndMatches == notRequiredComplement * matches
    IN notRequired + requiredAndMatches

\* the values of Define, by the names of its locals
ageValid(circuit) == Cmp(circuit.ActualAge, circuit.MinAge)
isOver18(circuit) == Cmp(circuit.ActualAge, AGE_18)
isOver21(circuit) == Cmp(circuit.ActualAge, AGE_21)
jurisdictionValid(circuit) ==
    checkJurisdiction(circuit.ActualJurisdiction, circuit.AllowedJurisdictions)
isNotSanctioned(circuit) ==
    checkSanctions(circuit.ActualJurisdiction, circuit.SanctionedCountries)
expiryValid(circuit) == Cmp(circuit.ExpiryDate, circuit.CurrentDate)
hashValid(circuit) ==
    IsZero(circuit.CredentialHash - circuit.CredentialHashPublic)
accreditationValid(circuit) ==
    checkAccreditation(circuit.ActualAccredited, circuit.RequireAccredited)

\* variant: the nullifier is derived per recipient
Nullifier_PerRecipient(circuit) ==
    circuit.PassportNumber * circuit.RecipientAddress

\* circuit.Nullifier = api.Mul(circuit.PassportNumber, 1)
Nullifier(circuit) == circuit.PassportNumber * 1

\* circuit.PackedFlags = (isOver18 + isOver21 * 2) + (expiryValid * 4 + isNotSanctioned * 8)
PackedFlags(circuit) ==
    LET p1 == isOver18(circuit) + isOver21(circuit) * 2
        p2 == expiryValid(circuit) * 4 + isNotSanctioned(circuit) * 8
    IN p1 + p2

\* circuit.IsValid = the product of the six values
IsValid(circuit) ==
    ageValid(circuit)
      * (jurisdictionValid(circuit)
          * (hashValid(circuit)
              * (accreditationValid(circuit)
                  * (expiryValid(circuit) * isNotSanctioned(circuit)))))

Define(circuit) ==
    [ageValid |-> ageValid(circuit),
     jurisdictionValid |-> jurisdictionValid(circuit),
     isNotSanctioned |-> isNotSanctioned(circuit),
     expiryValid |-> expiryValid(circuit),
     hashValid |-> hashValid(circuit),
     accreditationValid |-> accreditationValid(circuit),
     Nullifier |-> Nullifier(circuit),
     PackedFlags |-> PackedFlags(circuit),
     IsValid |-> IsValid(circuit)]

\* the equalities Define asserts between the values it computes and the
\* variables of the assignment: it calls no api.AssertIsEqual, the three
\* outputs are Go fields overwritten with the computed values
AssertedEqualities(circuit, values) == {}

\* the constraint system is satisfied by the assignment
ConstraintsSatisfied(circuit) ==
    \A equality \in AssertedEqualities(circuit, Define(circuit)) :
        equality[1] = equality[2]

(***************************************************************************)
(* One run of the prover: an assignment is handed over, Define computes    *)
(* its values and the constraint system accepts or rejects the assignment. *)
(***************************************************************************)
Slots(list) == [i \in 0..(NUM_SLOTS - 1) |-> PaddedSlot(list, i)]

CircuitAges == {17, 18, 21, 22}
CircuitMinAges == {18, 21}
CurrentDates == {1740052800}
ExpiryDates == {1740052799, 1740052800, 1740052801}
CircuitJurisdictions == 0..MaxJurisdiction
\* the value in the last slot alone
LastSlot(value) == [i \in 0..(NUM_SLOTS - 1) |-> IF i = NUM_SLOTS - 1 THEN value ELSE 0]

AllowedLists == {Slots(<< >>), Slots(<<1>>), LastSlot(2), Slots(<<1, 2>>),
                 Slots(<<1, 1>>), Slots(<<0, 1>>)}
SanctionedLists == {Slots(<< >>), Slots(<<2>>), Slots(<<1, 2>>)}
PassportNumbers == 1..MaxPassport
CircuitHashes == 1..2
Recipients == 1..MaxAddr
AssignedFlags == {12, 15}

Assignments ==
    [ActualAge : CircuitAges, ActualJurisdiction : CircuitJurisdictions,
     ActualAccredited : {0, 1}, CredentialHash : CircuitHashes,
     PassportNumber : PassportNumbers, ExpiryDate : ExpiryDates,
     MinAge : CircuitMinAges, AllowedJurisdictions : AllowedLists,
     RequireAccredited : {0, 1}, CredentialHashPublic : {1},
     RecipientAddress : Recipients, CurrentDate : CurrentDates,
     SanctionedCountries : SanctionedLists,
     IsValid : {0, 1}, Nullifier : PassportNumbers,
     PackedFlags : AssignedFlags]

InitCircuit ==
    /\ InitContracts
    /\ InitHistory
    /\ InitProver
    /\ InitFHE
    /\ blockTimestamp = GENESIS_TIME
    /\ mempool = {}
    /\ mined = NoTx
    /\ last = NoReceipt

\* an assignment is handed to the prover
Assign ==
    /\ assignment = NoAssignment
    /\ assignment' \in Assignments
    /\ UNCHANGED <<computed, proverSucceeded, ledgerVars, accessLog, fheVars>>

\* the prover solves the circuit for the assignment
Prove ==
    /\ assignment # NoAssignment
    /\ computed = NoValues
    /\ computed' = Define(assignment)
    /\ proverSucceeded' = ConstraintsSatisfied(assignment)
    /\ UNCHANGED <<assignment, ledgerVars, accessLog, fheVars>>

NextCircuit ==
    \/ Assign
    \/ Prove

SpecCircuit == InitCircuit /\ [][NextCircuit]_vars

(***************************************************************************)
(* FHENoahRegistry and FHEProtocolAccessControl.  A call that reverts      *)
(* leaves the contracts' state as it was and is seen in fheLast only.      *)
(* Ages are held encrypted on chain; the model keeps the plaintext the     *)
(* ciphertext stands for.  The gateway numbers the decryption requests     *)
(* from 0 and calls back with whatever id and result it is given.          *)
(***************************************************************************)
GATEWAY == MaxAddr + 1
FHEUsers == 1..MaxUser
FHEAges == {17, 21}
FHEMinAges == {18}
FHESenders == 1..MaxAddr

\* FHENoahRegistry.addIssuer: onlyRole(ISSUER_MANAGER_ROLE), held by the deployer
fheAddIssuer(sender, issuer) ==
    LET err == IF sender # DEPLOYER THEN ERR_MISSING_ROLE ELSE OK IN
    /\ fheLast' = FHEReceipt("addIssuer", err)
    /\ IF err = OK
       THEN fheTrustedIssuers' = [fheTrustedIssuers EXCEPT ![issuer] = TRUE]
       ELSE UNCHANGED fheTrustedIssuers
    /\ UNCHANGED <<isRegistered, encryptedAges, identityNullifiers,
                   fheAccessVars, zkVars>>

RegisterIdentityOutcome(sender, nullifier) ==
    IF ~fheTrustedIssuers[sender] THEN ERR_NOT_ISSUER
    ELSE IF identityNullifiers[nullifier] # ZERO_ADDRESS
         THEN ERR_IDENTITY_REGISTERED
    ELSE OK

registerIdentity(sender, user, nullifier, age) ==
    LET err == RegisterIdentityOutcome(sender, nullifier) IN
    /\ fheLast' = FHEReceipt("registerIdentity", err)
    /\ IF err = OK
       THEN /\ encryptedAges' = [encryptedAges EXCEPT ![user] = age]
            /\ identityNullifiers' =
                   [identityNullifiers EXCEPT ![nullifier] = user]
            /\ isRegistered' = [isRegistered EXCEPT ![user] = TRUE]
       ELSE UNCHANGED <<encryptedAges, identityNullifiers, isRegistered>>
    /\ UNCHANGED <<fheTrustedIssuers, fheAccessVars, zkVars>>

getEncryptedAge(user) == encryptedAges[user]

\* FHEProtocolAccessControl.setRequirements
fheSetRequirements(sender, minAge) ==
    /\ fheLast' = FHEReceipt("setRequirements", OK)
    /\ fheRequirements' =
           [fheRequirements EXCEPT ![sender] = [minAge |-> minAge, isSet |-> TRUE]]
    /\ UNCHANGED <<fheRegistryVars, fheHasAccess, requestToUser,
                   requestToProtocol, requestCounter, requestLog, zkVars>>

RequestOutcome(sender, user) ==
    IF ~fheRequirements[sender].isSet THEN ERR_REQ_NOT_SET
    ELSE IF ~isRegistered[user] THEN ERR_USER_NOT_REGISTERED
    ELSE OK

\* the comparison is handed to the gateway under the id it issues
requestAccessVerification(sender, user) ==
    LET err == RequestOutcome(sender, user)
        req == fheRequirements[sender]
        isOldEnough == getEncryptedAge(user) >= req.minAge
        requestId == requestCounter
    IN
    /\ fheLast' = [FHEReceipt("requestAccessVerification", err) EXCEPT
                      !.requestId = IF err = OK THEN requestId ELSE 0]
    /\ IF err = OK
       THEN /\ requestCounter' = requestCounter + 1
            /\ requestToUser' = [requestToUser EXCEPT ![requestId] = user]
            /\ requestToProtocol' =
                   [requestToProtocol EXCEPT ![requestId] = sender]
            /\ requestLog' =
                   [requestLog EXCEPT ![requestId] =
                       [protocol |-> sender, user |-> user,
                        isOldEnough |-> isOldEnough, consumed |-> FALSE]]
       ELSE UNCHANGED <<requestCounter, requestToUser, requestToProtocol,
                        requestLog>>
    /\ UNCHANGED <<fheRegistryVars, fheRequirements, fheHasAccess, zkVars>>

\* onlyGateway; the id and the result are not checked against any record
callbackAccess(sender, requestId, result) ==
    LET err == IF sender # GATEWAY THEN ERR_NOT_GATEWAY ELSE OK
        user == requestToUser[requestId]
        protocol == requestToProtocol[requestId]
    IN
    /\ fheLast' = [FHEReceipt("callbackAccess", err) EXCEPT
                      !.requestId = requestId, !.result = result]
    /\ IF err = OK
       THEN /\ fheHasAccess' =
                   IF result
                   THEN [fheHasAccess EXCEPT ![protocol][user] = TRUE]
                   ELSE fheHasAccess
            /\ requestToUser' =
                   [requestToUser EXCEPT ![requestId] = ZERO_ADDRESS]
            /\ requestToProtocol' =
                   [requestToProtocol EXCEPT ![requestId] = ZERO_ADDRESS]
            /\ requestLog' =
                   [requestLog EXCEPT ![requestId] =
                       IF @ = NoRequest THEN @ ELSE [@ EXCEPT !.consumed = TRUE]]
       ELSE UNCHANGED <<fheHasAccess, requestToUser, requestToProtocol,
                        requestLog>>
    /\ UNCHANGED <<fheRegistryVars, fheRequirements, requestCounter, zkVars>>

CallAddIssuer ==
    \E sender \in FHESenders : fheAddIssuer(sender, DEPLOYER)

CallRegisterIdentity ==
    \E user \in FHEUsers, nullifier \in 1..MaxIdentity, age \in FHEAges :
        registerIdentity(DEPLOYER, user, nullifier, age)

CallSetRequirements ==
    \E sender \in FHESenders, minAge \in FHEMinAges :
        fheSetRequirements(sender, minAge)

CallRequestAccessVerification ==
    /\ requestCounter < MaxRequest
    /\ \E sender \in FHESenders, user \in FHEUsers :
          requestAccessVerification(sender, user)

CallCallbackAccess ==
    \E sender \in {GATEWAY, DEPLOYER}, requestId \in RequestIds, result \in BOOLEAN :
        callbackAccess(sender, requestId, result)

NextFHE ==
    \/ CallAddIssuer
    \/ CallRegisterIdentity
    \/ CallSetRequirements
    \/ CallRequestAccessVerification
    \/ CallCallbackAccess

SpecFHE == Init /\ [][NextFHE]_vars

(***************************************************************************)
(* Properties.  A step executes a transaction iff it moves it from the     *)
(* mempool to mined; Executed(ops) is such a step for one of the entry     *)
(* points ops.                                                             *)
(***************************************************************************)
Executed(ops) == mined' \in mempool /\ mined'.op \in ops

AllOps == {"registerCredential", "registerNullifier", "revokeCredential",
           "addIssuer", "removeIssuer", "setRequirements",
           "verifyAndGrantAccess", "revokeAccess"}

\* C1: once a call carrying nullifier n has succeeded for wallet u
\* (address(0) included), no call carrying n succeeds for another wallet and
\* the owner recorded for n stays u.
C1_NullifierNeverRebinds ==
    \A n \in Nullifiers :
        /\ Cardinality(nullifierUsers[n]) <= 1
        /\ \A u \in nullifierUsers[n] : nullifierOwners[n] = u

\* C4: every nullifier binding of the registry was created by a successful
\* verifyAndGrantAccess; a direct registerNullifier creates none.
C4_BindingsOnlyByVerification ==
    \A n \in Nullifiers :
        nullifierOwners[n] # ZERO_ADDRESS => boundVia[n] = "verifyAndGrantAccess"

\* C5 (as amended): a successful revokeCredential(h) sets the revoked flag of
\* h, the flag is never cleared, and while it is set no verifyAndGrantAccess
\* and no registerNullifier that uses h succeeds; verifyAndGrantAccess fails
\* with 'Invalid or revoked credential' when the caller's policy is set and
\* with 'Requirements not set' when it is not.
C5_RevokedNeverAccepted ==
    [][/\ \A h \in Hashes : revokedCredentials[h] => revokedCredentials'[h]
       /\ (Executed({"revokeCredential"}) /\ last'.err = OK)
              => revokedCredentials'[mined'.credentialHash]
       /\ (/\ Executed({"verifyAndGrantAccess", "registerNullifier"})
           /\ revokedCredentials[mined'.credentialHash])
              => /\ last'.err # OK
                 /\ mined'.op = "verifyAndGrantAccess"
                       => last'.err =
                             IF protocolRequirements[mined'.sender].isSet
                             THEN ERR_INVALID_CREDENTIAL
                             ELSE ERR_REQ_NOT_SET]_vars

\* C5 (as claimed): every verifyAndGrantAccess that uses a revoked hash fails
\* with 'Invalid or revoked credential', whoever the caller is.
C5_RevokedAlwaysInvalidCredential ==
    [][(/\ Executed({"verifyAndGrantAccess"})
        /\ revokedCredentials[mined'.credentialHash])
           => last'.err = ERR_INVALID_CREDENTIAL]_vars

\* a proof the verifier accepts was presented for a revoked hash by a relying
\* party with a policy, and was refused
C5_Witness ==
    /\ mined.op = "verifyAndGrantAccess"
    /\ mined.proofValid
    /\ revokedCredentials[mined.credentialHash]
    /\ last.err = ERR_INVALID_CREDENTIAL

\* the three stages of a credential hash
Absent(h) == ~credentials[h]
Active(h) == credentials[h] /\ ~revokedCredentials[h]
Revoked(h) == credentials[h] /\ revokedCredentials[h]

\* C6: per hash, isCredentialValid follows absent -> active -> revoked only:
\* absent becomes active by a successful registerCredential, active becomes
\* revoked by a successful revokeCredential, revoked is terminal, and a
\* registered hash never becomes absent.
C6_CredentialLifecycle ==
    [][\A h \in Hashes :
        /\ isCredentialValid(h) <=> Active(h)
        /\ ~(~credentials[h] /\ revokedCredentials[h])
        /\ Absent(h) => \/ Absent(h)'
                        \/ /\ Active(h)'
                           /\ Executed({"registerCredential"})
                           /\ mined'.credentialHash = h
                           /\ last'.err = OK
        /\ Active(h) => \/ Active(h)'
                        \/ /\ Revoked(h)'
                           /\ Executed({"revokeCredential"})
                           /\ mined'.credentialHash = h
                           /\ last'.err = OK
        /\ Revoked(h) => Revoked(h)'
        /\ (/\ Executed({"registerCredential"})
            /\ mined'.credentialHash = h /\ last'.err = OK) => Active(h)'
        /\ (/\ Executed({"revokeCredential"})
            /\ mined'.credentialHash = h /\ last'.err = OK) => Revoked(h)']_vars

\* a revoked hash was offered for registration again and stayed revoked
C6_Witness ==
    /\ mined.op = "registerCredential"
    /\ last.err # OK
    /\ trustedIssuers[mined.sender]
    /\ Revoked(mined.credentialHash)

\* C8: a failing call leaves the state of both contracts unchanged, also a
\* verifyAndGrantAccess that fails inside registerNullifier.
C8_FailureChangesNothing ==
    [][(Executed(AllOps) /\ last'.err # OK) => UNCHANGED contractVars]_vars

\* a verification passed every require of its own and failed inside
\* registerNullifier
C8_Witness ==
    /\ mined.op = "verifyAndGrantAccess"
    /\ last.err = ERR_IDENTITY_CONFLICT

(***************************************************************************)
(* Properties of two verifications in flight (SpecPair).  In the step that *)
(* executes the second one, mined and last are the first transaction and   *)
(* its receipt, mined' and last' the second and its receipt.               *)
(***************************************************************************)
VerifyOutcomeOf(tx) ==
    VerifyOutcome(tx.sender, tx.proofValid, tx.publicSignals,
                  tx.credentialHash, tx.user)

\* every require of verifyAndGrantAccess itself passes for tx
OtherwiseValid(tx) == VerifyOutcomeOf(tx) \in {OK, ERR_IDENTITY_CONFLICT}

SecondOfTwo ==
    /\ Executed({"verifyAndGrantAccess"})
    /\ mined.op = "verifyAndGrantAccess"

\* C2: two relying parties submit otherwise valid verifications carrying the
\* same nullifier; in either order, for different wallets the first executed
\* is granted and the second fails with 'Identity bound to another wallet'
\* and grants nothing, and for the same wallet both succeed.
C2_FirstWriterWins ==
    [][(/\ SecondOfTwo
        /\ mined.sender # mined'.sender
        /\ mined.publicSignals[INDEX_NULLIFIER]
              = mined'.publicSignals[INDEX_NULLIFIER]
        /\ OtherwiseValid(mined)
        /\ OtherwiseValid(mined'))
           => IF mined.user # mined'.user
              THEN /\ last.err = OK
                   /\ last'.err = ERR_IDENTITY_CONFLICT
                   /\ UNCHANGED contractVars
              ELSE last.err = OK /\ last'.err = OK]_vars

\* the requires of verifyAndGrantAccess that come before the wallet binding
ChecksBeforeWalletBinding(tx) ==
    LET req == protocolRequirements[tx.sender] IN
    /\ req.isSet
    /\ isCredentialValid(tx.credentialHash)
    /\ tx.proofValid
    /\ tx.publicSignals[INDEX_IS_VALID] = 1
    /\ tx.publicSignals[INDEX_MIN_AGE] = req.minAge
    /\ JurisdictionsMatch(req, tx.publicSignals)
    /\ tx.publicSignals[INDEX_ACCREDITED] = (IF req.requireAccredited THEN 1 ELSE 0)

ErrorsBeforeWalletBinding ==
    {ERR_REQ_NOT_SET, ERR_INVALID_CREDENTIAL, ERR_INVALID_PROOF, ERR_IS_VALID,
     ERR_AGE_MISMATCH, ERR_JURISDICTION, ERR_ACCREDITATION}

SameTriple(t1, t2) ==
    /\ t1.proofValid = t2.proofValid
    /\ t1.publicSignals = t2.publicSignals
    /\ t1.credentialHash = t2.credentialHash

\* C7 (as amended): access is only granted by a call whose publicSignals[13]
\* is the numeric value of the user; a triple accepted for user u is rejected
\* for every other user by every relying party, with 'Proof not bound to
\* this user' when that relying party's earlier requires (policy set,
\* credential valid, proof accepted, isValid, minAge, jurisdictions,
\* accreditation) pass and with the error of the first failing one otherwise.
C7_TripleBoundToOneWallet ==
    [][/\ (Executed({"verifyAndGrantAccess"}) /\ last'.err = OK)
            => mined'.publicSignals[INDEX_USER_ADDRESS]
                  = AddressToUint(mined'.user)
       /\ \A p \in Protocols, u \in Users :
            (~hasAccess[p][u] /\ hasAccess'[p][u])
               => /\ Executed({"verifyAndGrantAccess"})
                  /\ mined'.sender = p /\ mined'.user = u
                  /\ mined'.publicSignals[INDEX_USER_ADDRESS] = AddressToUint(u)
       /\ (/\ SecondOfTwo
           /\ last.err = OK
           /\ SameTriple(mined, mined')
           /\ mined.user # mined'.user)
            => /\ last'.err # OK
               /\ IF ChecksBeforeWalletBinding(mined')
                  THEN last'.err = ERR_NOT_BOUND
                  ELSE last'.err \in ErrorsBeforeWalletBinding]_vars

\* C7 (as claimed): the second presentation of the triple, for another user,
\* always fails with 'Proof not bound to this user'.
C7_AlwaysProofNotBound ==
    [][(/\ SecondOfTwo
        /\ last.err = OK
        /\ SameTriple(mined, mined')
        /\ mined.user # mined'.user)
           => last'.err = ERR_NOT_BOUND]_vars

\* the second transaction named another wallet than the one its signals are
\* bound to, after that wallet was granted access with the same credential
C7_Witness ==
    /\ mined.op = "verifyAndGrantAccess"
    /\ mempool = {}
    /\ last.err = ERR_NOT_BOUND
    /\ mined.publicSignals[INDEX_USER_ADDRESS] \in Users
    /\ \E p \in Protocols :
          /\ hasAccess[p][mined.publicSignals[INDEX_USER_ADDRESS]]
          /\ userCredentials[p][mined.publicSignals[INDEX_USER_ADDRESS]]
                = mined.credentialHash

(***************************************************************************)
(* Properties of one verification against every kind of state and input    *)
(* (SpecChecks).  In the step that executes it, the unprimed variables are *)
(* the state at call time and mined' is the call.                          *)
(***************************************************************************)
VerifyExecuted == Executed({"verifyAndGrantAccess"})

\* the age bit of packedFlags that a policy with threshold minAge requires
RequiredFlagBits(minAge) ==
    {2, 3} \cup (IF minAge >= 21 THEN {1} ELSE IF minAge >= 18 THEN {0} ELSE {})

FlagBit(packedFlags, b) ==
    LET weight == IF b = 0 THEN 1 ELSE IF b = 1 THEN 2
                  ELSE IF b = 2 THEN 4 ELSE 8
    IN (packedFlags \div weight) % 2 = 1

\* C3: verifyAndGrantAccess by relying party p for user u succeeds only if,
\* at call time, p's policy is set, credentialHash is valid in the registry,
\* the verifier accepts the proof, isValid = 1, minAge equals the policy's,
\* all 10 jurisdiction slots match the policy, accredited matches
\* requireAccredited, userAddress = u, the truncated credential hash matches,
\* the required packedFlags bits are set, currentDate lies in the freshness
\* window, and the nullifier is unbound or bound to u; on success
\* hasAccess[p][u] is true, userCredentials[p][u] is credentialHash and the
\* owner of the nullifier is u.
C3_SuccessImpliesAllChecks ==
    [][(VerifyExecuted /\ last'.err = OK)
          => LET tx == mined'
                 p == tx.sender
                 u == tx.user
                 sig == tx.publicSignals
                 req == protocolRequirements[p]
                 n == sig[INDEX_NULLIFIER]
             IN
             /\ req.isSet
             /\ credentials[tx.credentialHash]
             /\ ~revokedCredentials[tx.credentialHash]
             /\ tx.proofValid
             /\ sig[INDEX_IS_VALID] = 1
             /\ sig[INDEX_MIN_AGE] = req.minAge
             /\ \A i \in 0..(NUM_JURISDICTIONS - 1) :
                   sig[INDEX_JURISDICTION_START + i]
                      = PaddedSlot(req.allowedJurisdictions, i)
             /\ (sig[INDEX_ACCREDITED] = 1) = req.requireAccredited
             /\ sig[INDEX_ACCREDITED] \in {0, 1}
             /\ sig[INDEX_USER_ADDRESS] = u
             /\ sig[INDEX_CREDENTIAL_HASH] = tx.credentialHash.lo
             /\ \A b \in RequiredFlagBits(req.minAge) :
                   FlagBit(sig[INDEX_PACKED_FLAGS], b)
             /\ blockTimestamp - ONE_HOUR <= sig[INDEX_CURRENT_DATE]
             /\ sig[INDEX_CURRENT_DATE] <= blockTimestamp
             /\ nullifierOwners[n] \in {ZERO_ADDRESS, u}
             /\ hasAccess'[p][u]
             /\ userCredentials'[p][u] = tx.credentialHash
             /\ nullifierOwners'[n] = u]_vars

\* a wallet was granted access under a policy that asks for age 21 and
\* accreditation, and now owns the nullifier of its proof
C3_Witness ==
    /\ mined.op = "verifyAndGrantAccess"
    /\ last.err = OK
    /\ mined.user # ZERO_ADDRESS
    /\ protocolRequirements[mined.sender].minAge = 21
    /\ protocolRequirements[mined.sender].requireAccredited
    /\ hasAccess[mined.sender][mined.user]
    /\ userCredentials[mined.sender][mined.user] = mined.credentialHash
    /\ nullifierOwners[mined.publicSignals[INDEX_NULLIFIER]] = mined.user

\* the checks of verifyAndGrantAccess in the order of the claim, each with
\* the failure it reports, evaluated for tx in the current state
OrderedChecks(tx) ==
    LET req == protocolRequirements[tx.sender]
        sig == tx.publicSignals
        flags == sig[INDEX_PACKED_FLAGS]
        date == sig[INDEX_CURRENT_DATE]
    IN
    << [holds |-> req.isSet, err |-> ERR_REQ_NOT_SET],
       [holds |-> credentials[tx.credentialHash]
                    /\ ~revokedCredentials[tx.credentialHash],
        err |-> ERR_INVALID_CREDENTIAL],
       [holds |-> tx.proofValid, err |-> ERR_INVALID_PROOF],
       [holds |-> sig[INDEX_IS_VALID] = 1, err |-> ERR_IS_VALID],
       [holds |-> sig[INDEX_MIN_AGE] = req.minAge, err |-> ERR_AGE_MISMATCH],
       [holds |-> \A i \in 0..(NUM_JURISDICTIONS - 1) :
                     sig[INDEX_JURISDICTION_START + i]
                        = PaddedSlot(req.allowedJurisdictions, i),
        err |-> ERR_JURISDICTION],
       [holds |-> sig[INDEX_ACCREDITED]
                     = (IF req.requireAccredited THEN 1 ELSE 0),
        err |-> ERR_ACCREDITATION],
       [holds |-> sig[INDEX_USER_ADDRESS] = tx.user, err |-> ERR_NOT_BOUND],
       [holds |-> sig[INDEX_CREDENTIAL_HASH] = tx.credentialHash.lo,
        err |-> ERR_HASH_MISMATCH],
       [holds |-> FlagBit(flags, 2), err |-> ERR_EXPIRED],
       [holds |-> FlagBit(flags, 3), err |-> ERR_SANCTIONED],
       [holds |-> \A b \in RequiredFlagBits(req.minAge) \ {2, 3} :
                     FlagBit(flags, b),
        err |-> IF req.minAge >= 21 THEN ERR_NOT_OVER_21 ELSE ERR_NOT_OVER_18],
       [holds |-> date <= blockTimestamp, err |-> ERR_DATE_FUTURE],
       [holds |-> date >= blockTimestamp - ONE_HOUR, err |-> ERR_TOO_OLD] >>

Violated(tx) ==
    LET checks == OrderedChecks(tx) IN
    {k \in DOMAIN checks : ~checks[k].holds}

Earliest(ks) == CHOOSE k \in ks : \A j \in ks : k <= j

\* C9: when preconditions of verifyAndGrantAccess are violated in the same
\* call, the failure reported is the one of the earliest violated check in
\* the order policy set, credential valid, proof accepted, isValid = 1,
\* minAge, jurisdictions, accreditation, wallet binding, credential hash,
\* flag bit 2, flag bit 3, age flag, date not in future, date not too old;
\* 'Identity bound to another wallet' is reported only when all of them hold.
C9_EarliestViolatedCheckReported ==
    [][VerifyExecuted
          => LET violated == Violated(mined') IN
             /\ violated # {}
                   => last'.err = OrderedChecks(mined')[Earliest(violated)].err
             /\ last'.err = ERR_IDENTITY_CONFLICT => violated = {}]_vars

\* a call that violated the minAge check and, later in the order, both the
\* expiry and the sanctions bit was answered with the minAge failure
C9_Witness ==
    /\ mined.op = "verifyAndGrantAccess"
    /\ last.err = ERR_AGE_MISMATCH
    /\ {5, 10, 11} \subseteq Violated(mined)

\* every check other than the two on currentDate passes for tx, and the
\* nullifier of tx is unbound or bound to the user of tx
AllButFreshness(tx) ==
    /\ Violated(tx) \subseteq {13, 14}
    /\ nullifierOwners[tx.publicSignals[INDEX_NULLIFIER]]
          \in {ZERO_ADDRESS, tx.user}

\* C10: for every verification time now (block timestamps below 3600 seconds
\* included) and every currentDate, with all other checks passing,
\* verifyAndGrantAccess succeeds iff now - 3600 <= currentDate <= now, fails
\* with 'Proof date in future' iff currentDate > now, fails with 'Proof too
\* old' iff currentDate < now - 3600, and has no other outcome.
C10_FreshnessWindow ==
    [][(VerifyExecuted /\ AllButFreshness(mined'))
          => LET now == blockTimestamp
                 currentDate == mined'.publicSignals[INDEX_CURRENT_DATE]
             IN
             /\ (last'.err = OK)
                   <=> (now - ONE_HOUR <= currentDate /\ currentDate <= now)
             /\ (last'.err = ERR_DATE_FUTURE) <=> (currentDate > now)
             /\ (last'.err = ERR_TOO_OLD) <=> (currentDate < now - ONE_HOUR)
             /\ last'.err \in {OK, ERR_DATE_FUTURE, ERR_TOO_OLD}]_vars

\* the same window for block timestamps of at least one hour
C10_FreshnessWindowFromOneHour ==
    [][(VerifyExecuted /\ AllButFreshness(mined') /\ blockTimestamp >= ONE_HOUR)
          => LET now == blockTimestamp
                 currentDate == mined'.publicSignals[INDEX_CURRENT_DATE]
             IN
             /\ (last'.err = OK)
                   <=> (now - ONE_HOUR <= currentDate /\ currentDate <= now)
             /\ (last'.err = ERR_DATE_FUTURE) <=> (currentDate > now)
             /\ (last'.err = ERR_TOO_OLD) <=> (currentDate < now - ONE_HOUR)
             /\ last'.err \in {OK, ERR_DATE_FUTURE, ERR_TOO_OLD}]_vars

\* a call whose other checks all pass, made before the ledger is one hour
\* old with a currentDate that is not in the future, ended in the arithmetic
\* panic
C10_PanicReached ==
    /\ mined.op = "verifyAndGrantAccess"
    /\ last.err = PANIC_UNDERFLOW
    /\ blockTimestamp < ONE_HOUR
    /\ mined.publicSignals[INDEX_CURRENT_DATE] <= blockTimestamp

\* every check other than those on packedFlags passes for tx, the nullifier
\* of tx is unbound or bound to the user of tx, and the ledger is old enough
\* for the freshness window to be computed
AllButFlags(tx) ==
    /\ Violated(tx) \subseteq {10, 11, 12}
    /\ nullifierOwners[tx.publicSignals[INDEX_NULLIFIER]]
          \in {ZERO_ADDRESS, tx.user}
    /\ blockTimestamp >= ONE_HOUR

\* C11 (as amended): every successful verifyAndGrantAccess has packedFlags
\* bit2 and bit3 set, bit1 set when policy.minAge >= 21, and bit0 set when
\* 18 <= policy.minAge < 21; from 21 up bit0 is not required and below 18
\* neither age bit is: with every other check passing, the call succeeds
\* exactly when these bits are set.
C11_RequiredFlagBits ==
    [][VerifyExecuted
          => LET minAge == protocolRequirements[mined'.sender].minAge
                 flags == mined'.publicSignals[INDEX_PACKED_FLAGS]
                 required ==
                     /\ FlagBit(flags, 2)
                     /\ FlagBit(flags, 3)
                     /\ minAge >= 21 => FlagBit(flags, 1)
                     /\ (minAge >= 18 /\ minAge < 21) => FlagBit(flags, 0)
             IN
             /\ last'.err = OK => required
             /\ AllButFlags(mined') => (last'.err = OK <=> required)]_vars

\* C11 (as claimed): every successful verifyAndGrantAccess has bit2 and bit3
\* set, bit1 whenever policy.minAge >= 21 and bit0 whenever
\* policy.minAge >= 18, thresholds from 21 up included.
C11_Over18BitFromEighteenUp ==
    [][(VerifyExecuted /\ last'.err = OK)
          => LET minAge == protocolRequirements[mined'.sender].minAge
                 flags == mined'.publicSignals[INDEX_PACKED_FLAGS]
             IN
             /\ FlagBit(flags, 2)
             /\ FlagBit(flags, 3)
             /\ minAge >= 21 => FlagBit(flags, 1)
             /\ minAge >= 18 => FlagBit(flags, 0)]_vars

\* access was granted under a threshold of 21 on flags 14: over-21, expiry
\* and sanctions bits set, over-18 bit clear
C11_Witness ==
    /\ mined.op = "verifyAndGrantAccess"
    /\ last.err = OK
    /\ protocolRequirements[mined.sender].minAge = 21
    /\ mined.publicSignals[INDEX_PACKED_FLAGS] = 14
    /\ hasAccess[mined.sender][mined.user]

(***************************************************************************)
(* Properties of one run of the prover (SpecCircuit).  The predicates of   *)
(* the circuit are stated on the assignment as unsigned integers.          *)
(***************************************************************************)
Proved == computed # NoValues

InList(actual, list) ==
    \E i \in 0..(NUM_SLOTS - 1) : list[i] # 0 /\ list[i] = actual

Bit(b) == IF b THEN 1 ELSE 0

AgeHolds(a) == a.ActualAge >= a.MinAge
JurisdictionHolds(a) == InList(a.ActualJurisdiction, a.AllowedJurisdictions)
HashHolds(a) == a.CredentialHash = a.CredentialHashPublic
AccreditationHolds(a) ==
    a.RequireAccredited = 0 \/ a.ActualAccredited = a.RequireAccredited
ExpiryHolds(a) == a.ExpiryDate > a.CurrentDate
SanctionsHold(a) == ~InList(a.ActualJurisdiction, a.SanctionedCountries)

AllPredicatesHold(a) ==
    /\ AgeHolds(a)
    /\ JurisdictionHolds(a)
    /\ HashHolds(a)
    /\ AccreditationHolds(a)
    /\ ExpiryHolds(a)
    /\ SanctionsHold(a)

\* C12: for every witness and policy, also where a predicate fails by strict
\* less-than and where several fail together, the IsValid value computed by
\* Define is 1 iff all six predicates hold and 0 otherwise.
C12_IsValidIffAllPredicates ==
    Proved => computed.IsValid = Bit(AllPredicatesHold(assignment))

\* Define computed IsValid = 1 for an assignment whose age is below the
\* threshold and whose passport expired before the current date
C12_ValidWithTwoFailures ==
    /\ Proved
    /\ computed.IsValid = 1
    /\ assignment.ActualAge < assignment.MinAge
    /\ assignment.ExpiryDate < assignment.CurrentDate

\* C13: for all unsigned actualAge and minAge, the ageValid value computed by
\* Define is 1 iff actualAge >= minAge (1 when they are equal) and 0 iff
\* actualAge < minAge.
C13_AgeValidIffAtLeastMinAge ==
    Proved => computed.ageValid = Bit(AgeHolds(assignment))

\* Define computed ageValid = 0 for an age equal to the threshold
C13_EqualAgeNotValid ==
    /\ Proved
    /\ assignment.ActualAge = assignment.MinAge
    /\ computed.ageValid = 0

\* C14: for every witness, the PackedFlags value computed by Define is an
\* integer in 0..15 with bit0 = [actualAge >= 18], bit1 = [actualAge >= 21],
\* bit2 = [expiryDate > currentDate], bit3 = [actualJurisdiction not in
\* sanctionedCountries], whatever the policy's minAge.
C14_PackedFlagsBits ==
    Proved
       => /\ computed.PackedFlags \in 0..15
          /\ computed.PackedFlags =
                 Bit(assignment.ActualAge >= 18)
                 + 2 * Bit(assignment.ActualAge >= 21)
                 + 4 * Bit(ExpiryHolds(assignment))
                 + 8 * Bit(SanctionsHold(assignment))

\* Define computed PackedFlags = 9 for age 17 with valid expiry and no
\* sanction, where the bits give 12
C14_Seventeen ==
    /\ Proved
    /\ assignment.ActualAge = 17
    /\ ExpiryHolds(assignment)
    /\ SanctionsHold(assignment)
    /\ computed.PackedFlags = 9

\* C15: an assignment is accepted only if its public outputs IsValid,
\* Nullifier and PackedFlags equal the values Define computes; no assignment
\* with IsValid = 1 is accepted when some predicate does not hold, and none
\* whose Nullifier differs from the one derived from its passportNumber.
C15_AcceptedOnlyWithComputedOutputs ==
    (Proved /\ proverSucceeded)
       => /\ assignment.IsValid = computed.IsValid
          /\ assignment.Nullifier = computed.Nullifier
          /\ assignment.PackedFlags = computed.PackedFlags
          /\ assignment.IsValid = 1 => AllPredicatesHold(assignment)
          /\ assignment.Nullifier = assignment.PassportNumber

\* an assignment was accepted that claims IsValid = 1 for an expired
\* passport and carries the nullifier of another passport number
C15_ForgedOutputsAccepted ==
    /\ Proved
    /\ proverSucceeded
    /\ assignment.IsValid = 1
    /\ ~ExpiryHolds(assignment)
    /\ assignment.Nullifier # assignment.PassportNumber

\* C16: for all unsigned expiryDate and currentDate, the expiryValid value
\* computed by Define is 1 iff expiryDate > currentDate and 0 otherwise:
\* 0 at expiryDate = currentDate, 1 at currentDate + 1, 0 below currentDate.
C16_ExpiryValidIffLater ==
    Proved => computed.expiryValid = Bit(ExpiryHolds(assignment))

\* Define computed expiryValid = -1 for a passport expired before the
\* current date
C16_ExpiredIsMinusOne ==
    /\ Proved
    /\ assignment.ExpiryDate < assignment.CurrentDate
    /\ computed.expiryValid = -1

\* C17: checkJurisdiction returns 1 iff some slot is non-zero and equals
\* actual, and 0 otherwise: 0 when actual = 0 whatever the list holds, and
\* exactly 1 when several slots equal actual; checkSanctions returns
\* 1 - membership by the same primitive.
C17_MembershipIsZeroOrOne ==
    Proved
       => /\ computed.jurisdictionValid
                = Bit(InList(assignment.ActualJurisdiction,
                             assignment.AllowedJurisdictions))
          /\ assignment.ActualJurisdiction = 0 => computed.jurisdictionValid = 0
          /\ computed.isNotSanctioned
                = 1 - Bit(InList(assignment.ActualJurisdiction,
                                 assignment.SanctionedCountries))
          /\ assignment.ActualJurisdiction = 0 => computed.isNotSanctioned = 1

\* the actual value sits in two slots of the allow-list and in a slot of the
\* sanctions list
C17_Witness ==
    /\ Proved
    /\ assignment.ActualJurisdiction = 1
    /\ assignment.AllowedJurisdictions = Slots(<<1, 1>>)
    /\ assignment.SanctionedCountries = Slots(<<1, 2>>)
    /\ computed.jurisdictionValid = 1
    /\ computed.isNotSanctioned = 0

\* the assignments that differ from a in passport number, recipient, policy
\* threshold and expiry date
Variants(a) ==
    {[a EXCEPT !.PassportNumber = passport, !.RecipientAddress = recipient,
               !.MinAge = minAge, !.ExpiryDate = expiry] :
        passport \in PassportNumbers, recipient \in Recipients,
        minAge \in CircuitMinAges, expiry \in ExpiryDates}

SignalJurisdictions(tx) ==
    {tx.publicSignals[INDEX_JURISDICTION_START + i] :
        i \in 0..(NUM_JURISDICTIONS - 1)} \ {0}

PolicyJurisdictions(req) ==
    {req.allowedJurisdictions[k] : k \in 1..Len(req.allowedJurisdictions)}

\* signal 1 + i is the policy's entry i below the list's length and 0 above
SlotsEqual(tx, req) ==
    \A i \in 0..9 :
        tx.publicSignals[1 + i] =
            IF i < Len(req.allowedJurisdictions)
            THEN req.allowedJurisdictions[i + 1] ELSE 0

\* C19: verifyAndGrantAccess passes the jurisdiction check iff for every
\* slot i in 0..9 the signal at index 1 + i equals
\* policy.allowedJurisdictions[i] when i < the list's length and 0
\* otherwise; a proof that lists the same jurisdictions in another order, or
\* a strict subset or superset of the policy list, fails with 'Jurisdiction
\* requirement mismatch'.
C19_JurisdictionSlotsExact ==
    [][(VerifyExecuted /\ Violated(mined') \cap (1..5) = {})
          => LET tx == mined'
                 req == protocolRequirements[tx.sender]
                 given == SignalJurisdictions(tx)
                 wanted == PolicyJurisdictions(req)
             IN
             /\ (last'.err = ERR_JURISDICTION) <=> ~SlotsEqual(tx, req)
             /\ (given = wanted /\ ~SlotsEqual(tx, req))
                   => last'.err = ERR_JURISDICTION
             /\ (given # wanted /\ (given \subseteq wanted \/ wanted \subseteq given))
                   => last'.err = ERR_JURISDICTION]_vars

\* a proof that lists the two jurisdictions of the policy in the opposite
\* order was refused
C19_Witness ==
    /\ mined.op = "verifyAndGrantAccess"
    /\ last.err = ERR_JURISDICTION
    /\ Len(protocolRequirements[mined.sender].allowedJurisdictions) = 2
    /\ SignalJurisdictions(mined)
          = PolicyJurisdictions(protocolRequirements[mined.sender])
    /\ mined.publicSignals[INDEX_JURISDICTION_START]
          = protocolRequirements[mined.sender].allowedJurisdictions[2]

\* every check other than the credential hash one passes for tx, the
\* nullifier of tx is unbound or bound to the user of tx, and the ledger is
\* old enough for the freshness window to be computed
AllButHash(tx) ==
    /\ Violated(tx) \subseteq {9}
    /\ nullifierOwners[tx.publicSignals[INDEX_NULLIFIER]]
          \in {ZERO_ADDRESS, tx.user}
    /\ blockTimestamp >= ONE_HOUR

\* a registered, unrevoked hash other than the one tx passes, whose low 60
\* bits are the value of publicSignals[12]
ProofMadeFor(tx) ==
    {H \in Hashes :
        /\ H # tx.credentialHash
        /\ credentials[H] /\ ~revokedCredentials[H]
        /\ tx.publicSignals[INDEX_CREDENTIAL_HASH] = H.lo}

\* C20 (as amended): a call that passes the registered, unrevoked hash H'
\* while publicSignals[12] carries the low 60 bits of another such hash H,
\* every other check passing, fails with 'Credential hash mismatch' when H
\* and H' differ in their low 60 bits and succeeds when they agree in them:
\* the check compares the low 60 bits only.
C20_LowSixtyBitsDecide ==
    [][(VerifyExecuted /\ AllButHash(mined'))
          => /\ (last'.err = ERR_HASH_MISMATCH)
                   <=> (mined'.publicSignals[INDEX_CREDENTIAL_HASH]
                           # mined'.credentialHash.lo)
             /\ last'.err \in {OK, ERR_HASH_MISMATCH}
             /\ \A H \in ProofMadeFor(mined') :
                   IF H.lo # mined'.credentialHash.lo
                   THEN last'.err = ERR_HASH_MISMATCH
                   ELSE last'.err = OK]_vars

\* C20 (as claimed): for all pairs of distinct registered, unrevoked hashes H
\* and H', a call that passes H' while publicSignals[12] carries H masked to
\* its low 60 bits, every other check passing, fails with 'Credential hash
\* mismatch'.
C20_ProofNeverAcceptedForOtherCredential ==
    [][(VerifyExecuted /\ AllButHash(mined') /\ ProofMadeFor(mined') # {})
          => last'.err = ERR_HASH_MISMATCH]_vars

\* access was granted with a credential hash while the proof carried the low
\* 60 bits of another registered, unrevoked hash
C20_Witness ==
    /\ mined.op = "verifyAndGrantAccess"
    /\ last.err = OK
    /\ ProofMadeFor(mined) # {}
    /\ hasAccess[mined.sender][mined.user]
    /\ userCredentials[mined.sender][mined.user] = mined.credentialHash

(***************************************************************************)
(* Properties of the registry (SpecRegistry).                              *)
(***************************************************************************)
\* C21: registerCredential(h, user) succeeds iff the caller is a trusted
\* issuer at call time and h has never been registered before (a hash once
\* registered stays registered, so it fails for an active and for a revoked
\* h, whoever the user and the trusted issuer are); on success the issuer
\* recorded for h is the caller, and the issuer recorded for a registered h
\* never changes.
C21_RegisteredOnceByOneIssuer ==
    [][/\ Executed({"registerCredential"})
          => LET tx == mined'
                 h == tx.credentialHash
             IN
             /\ (last'.err = OK) <=> (trustedIssuers[tx.sender] /\ Absent(h))
             /\ (last'.err = OK) => credentialIssuers'[h] = tx.sender
       /\ \A h \in Hashes :
             /\ credentials[h] => credentials'[h]
             /\ credentials[h] => credentialIssuers'[h] = credentialIssuers[h]
             /\ credentialIssuers'[h] # credentialIssuers[h]
                   => /\ mined'.op = "registerCredential"
                      /\ mined'.credentialHash = h
                      /\ last'.err = OK]_vars

\* a trusted issuer other than the recorded one was refused the registration
\* of a revoked hash for another user
C21_Witness ==
    /\ mined.op = "registerCredential"
    /\ last.err = ERR_CRED_EXISTS
    /\ Revoked(mined.credentialHash)
    /\ trustedIssuers[mined.sender]
    /\ credentialIssuers[mined.credentialHash] # mined.sender
    /\ userToCredential[mined.user] # mined.credentialHash

\* the record the registry keeps of h
CredentialState(h) ==
    <<credentials[h], credentialIssuers[h], revokedCredentials[h]>>

\* C22: revokeCredential(h) succeeds iff h is registered and the caller is
\* the issuer recorded for h or holds the admin role; for an unregistered h
\* it fails with 'Credential does not exist', for any other caller (another
\* trusted issuer included) with 'Not authorized to revoke', and a failed
\* call leaves the state of h unchanged.
C22_RevokeByIssuerOrAdmin ==
    [][Executed({"revokeCredential"})
          => LET tx == mined'
                 h == tx.credentialHash
                 authorized == \/ credentialIssuers[h] = tx.sender
                               \/ HasAdminRole(tx.sender)
             IN
             /\ (last'.err = OK) <=> (credentials[h] /\ authorized)
             /\ ~credentials[h] => last'.err = ERR_CRED_MISSING
             /\ (credentials[h] /\ ~authorized) => last'.err = ERR_NOT_AUTHORIZED
             /\ (last'.err = OK) => (credentials'[h] /\ revokedCredentials'[h])
             /\ (last'.err # OK)
                   => <<credentials'[h], credentialIssuers'[h],
                        revokedCredentials'[h]>> = CredentialState(h)]_vars

\* a trusted issuer that did not register the active hash was refused its
\* revocation
C22_Witness ==
    /\ mined.op = "revokeCredential"
    /\ last.err = ERR_NOT_AUTHORIZED
    /\ trustedIssuers[mined.sender]
    /\ Active(mined.credentialHash)
    /\ trustedIssuers[credentialIssuers[mined.credentialHash]]

\* C29: in every reachable state a revoked hash is a registered hash, so
\* every rejected re-registration, of an active or of a revoked hash,
\* reports 'Credential already exists' and registerCredential never reports
\* 'Credential was revoked'.
C29_RevokedIsRegistered ==
    /\ \A h \in Hashes : revokedCredentials[h] => credentials[h]
    /\ mined.op = "registerCredential"
          => /\ last.err # ERR_CRED_WAS_REVOKED
             /\ (last.err # OK /\ trustedIssuers[mined.sender])
                   => /\ last.err = ERR_CRED_EXISTS
                      /\ credentials[mined.credentialHash]

\* the issuer of a hash it has revoked was refused the registration of that
\* hash with 'Credential already exists'
C29_Witness ==
    /\ mined.op = "registerCredential"
    /\ last.err = ERR_CRED_EXISTS
    /\ Revoked(mined.credentialHash)
    /\ credentialIssuers[mined.credentialHash] = mined.sender
    /\ \E h \in Hashes : Active(h)

(***************************************************************************)
(* Properties of the relying parties' state (SpecAccess).                  *)
(***************************************************************************)
\* C23: setRequirements with at most 10 jurisdictions replaces the caller's
\* whole policy with exactly the given values and isSet = true; with more
\* than 10 it fails with 'Too many jurisdictions' and the caller's previous
\* policy is unchanged; every stored policy has at most 10 jurisdictions.
C23_PolicyOverwrittenWhole ==
    [][/\ Executed({"setRequirements"})
          => LET tx == mined' IN
             IF Len(tx.allowedJurisdictions) <= 10
             THEN /\ last'.err = OK
                  /\ protocolRequirements'[tx.sender] =
                        [minAge |-> tx.minAge,
                         allowedJurisdictions |-> tx.allowedJurisdictions,
                         requireAccredited |-> tx.requireAccredited,
                         isSet |-> TRUE]
             ELSE /\ last'.err = ERR_TOO_MANY
                  /\ protocolRequirements'[tx.sender]
                        = protocolRequirements[tx.sender]
       /\ \A a \in Addresses :
             /\ Len(protocolRequirements[a].allowedJurisdictions) <= 10
             /\ Len(protocolRequirements'[a].allowedJurisdictions) <= 10]_vars

\* a relying party that granted access under a policy of minimum age 18
\* with two jurisdictions now holds the policy (21, one jurisdiction,
\* accredited) it has just set
C23_Witness ==
    /\ mined.op = "setRequirements"
    /\ last.err = OK
    /\ protocolRequirements[mined.sender] = Policy(21, JurisdictionList(1), TRUE)
    /\ \E k \in DOMAIN accessLog :
          /\ accessLog[k].op = "verifyAndGrantAccess"
          /\ accessLog[k].sender = mined.sender
          /\ accessLog[k].minAge = 18

\* C24: revokeAccess(user) by relying party p fails with 'User does not have
\* access' when hasAccess[p][user] is false, and otherwise sets only
\* hasAccess[p][user] to false: userCredentials[p][user], every nullifier
\* binding, every credential record, p's policy and every other access flag
\* are left unchanged.
C24_RevokeAccessClearsFlagOnly ==
    [][Executed({"revokeAccess"})
          => LET p == mined'.sender
                 user == mined'.user
             IN
             /\ UNCHANGED <<userCredentials, registryVars, protocolRequirements>>
             /\ IF hasAccess[p][user]
                THEN /\ last'.err = OK
                     /\ ~hasAccess'[p][user]
                     /\ \A q, u \in Addresses :
                           <<q, u>> # <<p, user>>
                              => hasAccess'[q][u] = hasAccess[q][u]
                ELSE /\ last'.err = ERR_NO_ACCESS
                     /\ UNCHANGED hasAccess]_vars

\* access was revoked while the credential hash of the grant, the binding of
\* its nullifier and another relying party's flag for the user stayed
C24_Witness ==
    /\ mined.op = "revokeAccess"
    /\ last.err = OK
    /\ ~hasAccess[mined.sender][mined.user]
    /\ userCredentials[mined.sender][mined.user] = AccessHash
    /\ \E n \in AccessNullifiers : nullifierOwners[n] = mined.user
    /\ \E q \in Protocols : hasAccess[q][mined.user]

\* the positions of accessLog that concern relying party p and user u
EventsOf(p, u) ==
    {k \in DOMAIN accessLog :
        accessLog[k].sender = p /\ accessLog[k].user = u}

\* the last thing p did for u was to revoke an access it had granted
RevokedAfterGrant(p, u) ==
    /\ EventsOf(p, u) # {}
    /\ LET k == CHOOSE i \in EventsOf(p, u) : \A j \in EventsOf(p, u) : j <= i
       IN accessLog[k].op = "revokeAccess"

\* the nullifier p's first grant to u carried
FirstGrantNullifier(p, u) ==
    LET k == CHOOSE i \in EventsOf(p, u) : \A j \in EventsOf(p, u) : i <= j
    IN accessLog[k].nullifier

NeverSeen(nullifier) ==
    /\ nullifierOwners[nullifier] = ZERO_ADDRESS
    /\ nullifierUsers[nullifier] = {}

RelyingPartyOps ==
    {"setRequirements", "verifyAndGrantAccess", "revokeAccess", "checkAccess"}

\* C26: no call made by relying party p (setRequirements,
\* verifyAndGrantAccess, revokeAccess, checkAccess) changes the policy, any
\* access flag or any userCredentials entry of a different relying party q;
\* the only state such a call changes outside p's partition is the
\* registry's nullifier table.
C26_PartitionedByRelyingParty ==
    [][Executed(RelyingPartyOps)
          => /\ \A q \in Addresses \ {mined'.sender} :
                   /\ protocolRequirements'[q] = protocolRequirements[q]
                   /\ hasAccess'[q] = hasAccess[q]
                   /\ userCredentials'[q] = userCredentials[q]
             /\ UNCHANGED <<credentials, credentialIssuers, revokedCredentials,
                            trustedIssuers, userToCredential>>
             /\ nullifierOwners' # nullifierOwners
                   => /\ mined'.op = "verifyAndGrantAccess"
                      /\ last'.err = OK]_vars

\* a relying party granted access and bound a nullifier no one had used
\* while another relying party holds a different policy and its own grant
\* to the same user
C26_Witness ==
    /\ mined.op = "verifyAndGrantAccess"
    /\ last.err = OK
    /\ accessLog[Len(accessLog)].fresh
    /\ nullifierOwners[mined.publicSignals[INDEX_NULLIFIER]] = mined.user
    /\ \E q \in Protocols \ {mined.sender} :
          /\ protocolRequirements[q].isSet
          /\ protocolRequirements[q] # protocolRequirements[mined.sender]
          /\ hasAccess[q][mined.user]

\* C27: revokeCredential and setRequirements leave every hasAccess flag and
\* every userCredentials entry unchanged: hasAccess[p][u] changes only
\* through p's own successful verifyAndGrantAccess (to true) and p's own
\* successful revokeAccess (to false), so a grant stays in force after its
\* credential is revoked or p's policy is overwritten.
C27_GrantOutlivesRevocationAndPolicy ==
    [][/\ Executed({"revokeCredential", "setRequirements"})
          => UNCHANGED <<hasAccess, userCredentials>>
       /\ \A p, u \in Addresses :
             hasAccess'[p][u] # hasAccess[p][u]
                => /\ mined' \in mempool
                   /\ mined'.sender = p
                   /\ mined'.user = u
                   /\ last'.err = OK
                   /\ mined'.op = IF hasAccess'[p][u]
                                  THEN "verifyAndGrantAccess"
                                  ELSE "revokeAccess"]_vars

\* the credential of a grant has just been revoked, the relying party has
\* since replaced the policy the grant was made under, and the grant is
\* still in force
C27_Witness ==
    /\ mined.op = "revokeCredential"
    /\ last.err = OK
    /\ \E k \in DOMAIN accessLog :
          LET p == accessLog[k].sender
              u == accessLog[k].user
          IN
          /\ accessLog[k].op = "verifyAndGrantAccess"
          /\ hasAccess[p][u]
          /\ Revoked(userCredentials[p][u])
          /\ protocolRequirements[p].minAge # accessLog[k].minAge

\* C28: in every reachable state, for every relying party p and user u,
\* hasAccess[p][u] implies that p's policy isSet and that
\* userCredentials[p][u] is a credential hash registered in the registry
\* (it may have been revoked since the grant).
C28_AccessImpliesPolicyAndCredential ==
    \A p, u \in Addresses :
        hasAccess[p][u]
           => /\ protocolRequirements[p].isSet
              /\ credentials[userCredentials[p][u]]

\* two relying parties hold grants to the same user, the credential behind
\* them is revoked, and no call is in flight
C28_Witness ==
    /\ mined = NoTx
    /\ \E u \in AccessUsers :
          \A p \in Protocols :
             /\ hasAccess[p][u]
             /\ protocolRequirements[p].isSet
             /\ Revoked(userCredentials[p][u])

(***************************************************************************)
(* Properties of the FHE access control (SpecFHE).                         *)
(***************************************************************************)
\* the gateway's callback went through in this step
CallbackExecuted ==
    /\ fheLast'.op = "callbackAccess"
    /\ fheLast'.err = OK

\* a request recorded under the id is waiting for its callback
Pending(requestId) ==
    /\ requestLog[requestId] # NoRequest
    /\ ~requestLog[requestId].consumed

\* C30: under any interleaving of requestAccessVerification, setRequirements
\* and gateway callbacks, hasAccess[p][u] becomes true only through
\* callbackAccess(requestId, true) for a requestId that p's
\* requestAccessVerification(u) recorded while p's requirements were set and
\* u was registered; a callback with result = false, or for a requestId that
\* was never recorded or was already consumed, changes no hasAccess entry;
\* each callback deletes its request record.
C30_AccessOnlyThroughRecordedCallback ==
    [][/\ \A p, u \in Addresses :
             (fheHasAccess'[p][u] /\ ~fheHasAccess[p][u])
                => /\ CallbackExecuted
                   /\ fheLast'.result
                   /\ Pending(fheLast'.requestId)
                   /\ requestLog[fheLast'.requestId].protocol = p
                   /\ requestLog[fheLast'.requestId].user = u
                   /\ fheRequirements[p].isSet
                   /\ isRegistered[u]
       /\ (/\ CallbackExecuted
           /\ ~fheLast'.result \/ ~Pending(fheLast'.requestId))
             => UNCHANGED fheHasAccess
       /\ CallbackExecuted
             => /\ requestToUser'[fheLast'.requestId] = ZERO_ADDRESS
                /\ requestToProtocol'[fheLast'.requestId] = ZERO_ADDRESS]_vars

\* the gateway called back with result = true under an id no request holds,
\* and the zero address has access at the zero address
C30_Witness ==
    /\ fheLast.op = "callbackAccess"
    /\ fheLast.err = OK
    /\ fheLast.result
    /\ requestLog[fheLast.requestId] = NoRequest
    /\ fheHasAccess[ZERO_ADDRESS][ZERO_ADDRESS]
    /\ \E id \in RequestIds : Pending(id)

====
